---- MODULE Spec2Model ----
(***************************************************************************)
(* Monte Carlo simulation engine of the Rnd repository: the seeded linear  *)
(* congruential generator, the samplers built on it, the six simulation    *)
(* models (P1..P6) and the Runner that submits a form to a model and       *)
(* collects the events the model emits.                                    *)
(*                                                                         *)
(* Numbers.  A 32-bit quantity is a pair <<h, l>> of 16-bit limbs, value   *)
(* h * 65536 + l; a JavaScript integer outside 32 bits keeps the same      *)
(* shape with an unbounded (possibly negative) high limb.  Form values and *)
(* money are fixed point, in thousandths unless a definition says more.    *)
(* The inventory model's quantities and money are binary floating point,   *)
(* every result rounded to nearest (ties to even) as a double's is, with a *)
(* mantissa of MantBits bits in place of 53.                               *)
(***************************************************************************)
EXTENDS Integers, Sequences, FiniteSets, TLC

VARIABLES
    x,        \* generator state of the current run (makeLCG's closure variable)
    last,     \* the generator's last call: state before, value returned, draw
    calls,    \* number of generator calls made (generator specification)
    running,  \* Runner: the running flag
    rpc,      \* onRun: "idle", "run" (inside run) or "awaiting" (at its await)
    view,     \* Runner: warnings, table rows and summary set by append
    shown,    \* the last render: the running flag it saw, and whether it is stale
    sim,      \* id of the model of the current run
    form,     \* the submitted form: field key -> raw text
    params,   \* the params object the Runner passes to run
    pc,       \* position inside run
    ERR,      \* run's list of validation errors
    WARN,     \* run's list of warnings
    ei,       \* index of the next ERR / WARN entry to emit
    events,   \* the events passed to emit by the current run, in order
    st,       \* the model's accumulators
    pre,      \* the accumulators and the generator state before the last step
    fault,    \* 0, or the number of the event at which the sink threw
    runs,     \* number of runs started
    hist      \* finished seeded runs: (model, parameters, seed) and events

rngVars == <<x, last, calls>>
runnerVars == <<running, rpc, view, shown>>
runVars == <<sim, form, params, pc, ERR, WARN, ei, events, st, pre, fault, runs>>
vars == <<x, last, calls, running, rpc, view, shown, sim, form, params, pc,
          ERR, WARN, ei, events, st, pre, fault, runs, hist>>

----------------------------------------------------------------------------
(* Bounds of the model *)

MaxCalls == 3      \* generator calls explored from each initial state
MaxSpan == 5       \* largest hi - lo of a randint call

MaxH == 3
MaxDev == 2
MaxRuns == 2
MaxSeedRuns == 3
MantBits == 12
----------------------------------------------------------------------------
(* 32-bit arithmetic on limbs *)

Limb == 256 * 256

\* p * q for 16-bit p, q, as <<high 16 bits, low 16 bits>>
Mul16(p, q) ==
    LET t0 == p * (q % 256)
        t1 == p * (q \div 256)
        s  == t0 + (t1 % 256) * 256
    IN  <<(t1 \div 256) + (s \div Limb), s % Limb>>

\* ToUint32: the value modulo 2^32
ToUint32(n) == <<n[1] % Limb, n[2]>>

\* ToInt32: the value modulo 2^32, read as a signed 32-bit integer
ToInt32(n) ==
    LET h == n[1] % Limb
    IN  <<IF h >= 32768 THEN h - Limb ELSE h, n[2]>>

\* Math.imul(a, b): the low 32 bits of the product, as a signed integer
Imul(a, b) ==
    LET ua == ToUint32(a)
        ub == ToUint32(b)
        ll == Mul16(ua[2], ub[2])
        hl == Mul16(ua[1], ub[2])
        lh == Mul16(ua[2], ub[1])
    IN  ToInt32(<<ll[1] + hl[2] + lh[2], ll[2]>>)

\* a + b on JavaScript numbers that are integers
AddNum(a, b) ==
    LET s == a[2] + b[2]
    IN  <<a[1] + b[1] + (s \div Limb), s % Limb>>

\* a < b
LtNum(a, b) == a[1] < b[1] \/ (a[1] = b[1] /\ a[2] < b[2])

RECURSIVE XorBits(_, _, _)
XorBits(a, b, n) ==
    IF n = 0 THEN 0
    ELSE (((a % 2) + (b % 2)) % 2) + 2 * XorBits(a \div 2, b \div 2, n - 1)

\* h ^ c for a 32-bit h and a 16-bit character code c
XorChar(h, c) == ToInt32(<<h[1], XorBits(ToUint32(h)[2], c, 16)>>)

----------------------------------------------------------------------------
(* Seed hashing and the generator *)

FNV_BASIS == <<33052, 40389>>     \* 0x811c9dc5
FNV_PRIME == <<256, 403>>         \* 0x01000193
LCG_a == <<25, 26125>>            \* 1664525
LCG_c == <<15470, 62303>>         \* 1013904223
LCG_FALLBACK == <<1883, 52501>>   \* 123456789

\* the loop of strToSeed over the characters r.lo..r.hi of s, r.h being the
\* hash before them; the range is halved so that a long seed nests few calls
RECURSIVE FnvLoop(_, _)
FnvLoop(s, r) ==
    IF r.lo > r.hi THEN r.h
    ELSE IF r.lo = r.hi THEN Imul(XorChar(r.h, s[r.lo]), FNV_PRIME)
    ELSE LET mid == (r.lo + r.hi) \div 2
         IN  FnvLoop(s, [lo |-> mid + 1, hi |-> r.hi,
                         h |-> FnvLoop(s, [lo |-> r.lo, hi |-> mid, h |-> r.h])])

\* strToSeed(s): FNV-1a over the character codes of s
strToSeed(s) ==
    ToUint32(FnvLoop(s, [lo |-> 1, hi |-> Len(s), h |-> ToUint32(FNV_BASIS)]))

\* the mutant of makeLCG: a zero seed is kept, no fallback
makeLCG_NoFallback(seedNum) == ToUint32(seedNum)

\* makeLCG(seedNum): the initial state x
makeLCG(seedNum) ==
    LET s == ToUint32(seedNum)
    IN  IF s = <<0, 0>> THEN LCG_FALLBACK ELSE s

\* the mutant of the state update: "| 0" (signed) in place of ">>> 0"
LcgStep_Signed(s) == ToInt32(AddNum(Imul(LCG_a, s), LCG_c))

\* x = (Math.imul(a, x) + c) >>> 0
LcgStep(s) == ToUint32(AddNum(Imul(LCG_a, s), LCG_c))

\* the new state n, and the value n / 2^32 returned, by its numerator
draw(n) == [x |-> n, num |-> n]

\* next(): the new state, and the value returned, x / 2^32, as its numerator
next(s) == draw(LcgStep(s))

\* floor(u * n) for u = num / 2^32 and a small integer n
FloorMul(num, n) == (num[1] * n + ((num[2] * n) \div Limb)) \div Limb

\* lo + Math.floor(u * n) for the draw d
scaled(d, lo, n) == [x |-> d.x, r |-> lo + FloorMul(d.num, n)]

\* the mutant of randint: one value too many
randint_Wide(s, lo, hi) == scaled(next(s), lo, hi - lo + 2)

\* randint(a, b) = a + Math.floor(this.next() * (b - a + 1))
randint(s, lo, hi) == scaled(next(s), lo, hi - lo + 1)

\* randint1to6() = 1 + Math.floor(this.next() * 6)
randint1to6(s) == scaled(next(s), 1, 6)
----------------------------------------------------------------------------
(* Form values, the Runner's conversion and the models' input schemas *)

\* a raw form text: empty, not numeric ("abc"), a decimal literal whose value
\* is v thousandths, or the literal "1e13"
Empty == [k |-> "empty", v |-> 0]
Text == [k |-> "text", v |-> 0]
Lit(v) == [k |-> "num", v |-> v]
Huge == [k |-> "huge", v |-> 0]

\* a JavaScript number: finite with value v thousandths, 1e13, or NaN
Num(v) == [k |-> "num", v |-> v]
NaN == [k |-> "nan", v |-> 0]

\* Number(s): "" is 0, a non-numeric text is NaN
Number(s) ==
    IF s.k = "num" THEN Num(s.v)
    ELSE IF s.k = "huge" THEN Huge
    ELSE IF s.k = "empty" THEN Num(0) ELSE NaN

isFinite(n) == n.k \in {"num", "huge"}
isInteger(n) == n.k = "huge" \/ (n.k = "num" /\ n.v % 1000 = 0)
\* n > c, n < c and n <= c for a finite n and a whole constant c below 1e13
Gt(n, c) ==
    \/ n.k = "huge"
    \/ n.k = "num" /\ (n.v \div 1000) > c
    \/ n.k = "num" /\ (n.v \div 1000) = c /\ n.v % 1000 > 0
Lt(n, c) == n.k = "num" /\ (n.v \div 1000) < c
Le(n, c) == ~Gt(n, c)
\* a < b for two finite numbers
LtN(a, b) ==
    IF b.k = "huge" THEN a.k = "num" ELSE a.k = "num" /\ a.v < b.v
\* Math.floor(n), in whole units, of a finite n below 1e13
floor(n) == n.v \div 1000

\* s.trim() on a sequence of character codes (32 is the space)
RECURSIVE trimStart(_)
trimStart(s) == IF s # <<>> /\ Head(s) = 32 THEN trimStart(Tail(s)) ELSE s
RECURSIVE trimEnd(_)
trimEnd(s) ==
    IF s # <<>> /\ s[Len(s)] = 32 THEN trimEnd(SubSeq(s, 1, Len(s) - 1)) ELSE s
trim(s) == trimEnd(trimStart(s))

IntF(key, def) == [key |-> key, type |-> "int", def |-> Num(def)]
FloatF(key, def) == [key |-> key, type |-> "float", def |-> Num(def)]
SeedF == [key |-> "seed", type |-> "string", def |-> <<>>]

\* the inputs arrays of the six RunnerSpecs
inputs(s) ==
    CASE s = "p1" -> <<IntF("T", 10000), FloatF("i", 35), FloatF("k0", 10000000)>>
      [] s = "p2" -> <<IntF("T", 10000), FloatF("k0", 10000000)>>
      [] s = "p3" -> <<IntF("N", 10000), SeedF>>
      [] s = "p4" -> <<IntF("H", 8000), FloatF("costo_fijo", 300000),
                       FloatF("costo", 50000), FloatF("precio", 75000), SeedF>>
      [] s = "p5" -> <<IntF("dias", 30000), FloatF("lambda", 1000),
                       FloatF("precio_huevo", 1500), FloatF("precio_pollo", 5000),
                       SeedF>>
      [] s = "p6" -> <<IntF("NMD", 27000), FloatF("CBO", 700000), FloatF("PUV", 5000),
                       FloatF("CADQ", 3500), FloatF("CINV", 100),
                       FloatF("CORDET_UNIT", 100000), FloatF("media_demanda", 100000),
                       SeedF>>

Keys(s) == {inputs(s)[j].key : j \in 1..Len(inputs(s))}
Field(s, key) == CHOOSE f \in {inputs(s)[j] : j \in 1..Len(inputs(s))} : f.key = key

\* the mutant of the conversion: an empty or non-numeric text becomes 0
toParam_Zero(f, raw) ==
    IF f.type = "string" THEN (IF Len(raw) > 0 THEN raw ELSE f.def)
    ELSE IF isFinite(Number(raw)) THEN Number(raw) ELSE Num(0)

\* onRun's conversion of one form field to a params entry
toParam(f, raw) ==
    IF f.type = "string" THEN (IF Len(raw) > 0 THEN raw ELSE f.def)
    ELSE LET n == Number(raw) IN IF isFinite(n) THEN n ELSE f.def

\* onRun: the params object built from the form
buildParams(s, fm) == [key \in Keys(s) |-> toParam(Field(s, key), fm[key])]
----------------------------------------------------------------------------
(* Validation: the messages each model collects before it runs *)

NMax == 100000
T_MAX == 10000
K0_MAX_MEGA == 1000000
H_MAX == 1000
NMD_MAX == 5000
CBO_MAX == 10000000
PRICE_MAX == 1000000
DEM_MAX == 1000000
EXPECTED_TOTAL_MAX == 50000000
SEED_MAX_LEN == 120

Msg(key, why) == <<[field |-> key, why |-> why]>>

\* the mutant of chkInt: the "> 0" check is missing
chkInt_NoSign(key, n, max) ==
    IF ~isFinite(n) THEN Msg(key, "nan")
    ELSE IF ~isInteger(n) THEN Msg(key, "frac")
    ELSE IF Gt(n, max) THEN Msg(key, "max")
    ELSE <<>>

\* the horizon's chain: finite, integer, > 0, <= max
chkInt(key, n, max) ==
    IF ~isFinite(n) THEN Msg(key, "nan")
    ELSE IF ~isInteger(n) THEN Msg(key, "frac")
    ELSE IF Le(n, 0) THEN Msg(key, "nonpos")
    ELSE IF Gt(n, max) THEN Msg(key, "max")
    ELSE <<>>

\* finite and >= 0
chkNonNeg(key, n) ==
    IF ~isFinite(n) THEN Msg(key, "nan")
    ELSE IF Lt(n, 0) THEN Msg(key, "neg")
    ELSE <<>>

\* finite, >= 0 and <= max
chkNonNegMax(key, n, max) ==
    IF ~isFinite(n) THEN Msg(key, "nan")
    ELSE IF Lt(n, 0) THEN Msg(key, "neg")
    ELSE IF Gt(n, max) THEN Msg(key, "max")
    ELSE <<>>

\* finite, > 0 and <= max
chkPosMax(key, n, max) ==
    IF ~isFinite(n) THEN Msg(key, "nan")
    ELSE IF Le(n, 0) THEN Msg(key, "nonpos")
    ELSE IF Gt(n, max) THEN Msg(key, "max")
    ELSE <<>>

\* Tasa anual i: finite and within 0..1
chkRate(key, n) ==
    IF ~isFinite(n) THEN Msg(key, "nan")
    ELSE IF Lt(n, 0) \/ Gt(n, 1) THEN Msg(key, "range")
    ELSE <<>>

\* n > 1e12, the limit counted in millions
GtE12(n) ==
    \/ n.k = "huge"
    \/ LET units == n.v \div 1000
           mega == units \div 1000000
       IN  \/ mega > K0_MAX_MEGA
           \/ mega = K0_MAX_MEGA /\ (units % 1000000 > 0 \/ n.v % 1000 > 0)

\* k0 of the tiered deposit: finite, >= 0 and <= 1e12
chkK0(key, n) ==
    IF ~isFinite(n) THEN Msg(key, "nan")
    ELSE IF Lt(n, 0) THEN Msg(key, "neg")
    ELSE IF GtE12(n) THEN Msg(key, "max")
    ELSE <<>>

chkSeed(seed) == IF Len(trim(seed)) > SEED_MAX_LEN THEN Msg("seed", "long") ELSE <<>>

\* nmdRaw * mediaRaw > limit, for finite operands (nmdRaw below 2147 when it is
\* a literal): media against limit / nmd, digit by digit in base 1000, so that
\* no product leaves TLC's integers
expectedGt(nmd, media, limit) ==
    \/ nmd.k = "huge" /\ (media.k = "huge" \/ media.v > 0)
    \/ media.k = "huge" /\ nmd.k = "num" /\ nmd.v > 0
    \/ /\ nmd.k = "num" /\ media.k = "num" /\ nmd.v > 0 /\ media.v > 0
       /\ LET n == nmd.v
              q1 == limit \div n
              r1 == limit % n
              q2 == (r1 * 1000) \div n
              r2 == (r1 * 1000) % n
              q3 == (r2 * 1000) \div n
              m1 == media.v \div 1000000
              m2 == (media.v \div 1000) % 1000
              m3 == media.v % 1000
          IN  \/ m1 > q1
              \/ m1 = q1 /\ m2 > q2
              \/ m1 = q1 /\ m2 = q2 /\ m3 > q3

\* the performance guard of the inventory model
expectedGuard(nmd, media) ==
    IF isFinite(nmd) /\ isFinite(media)
    THEN IF expectedGt(nmd, media, EXPECTED_TOTAL_MAX)
         THEN [ERR |-> Msg("expected", "max"), WARN |-> <<>>]
         ELSE IF expectedGt(nmd, media, EXPECTED_TOTAL_MAX \div 5)
              THEN [ERR |-> <<>>, WARN |-> Msg("expected", "high")]
              ELSE [ERR |-> <<>>, WARN |-> <<>>]
    ELSE [ERR |-> <<>>, WARN |-> <<>>]

\* the business warning: price below cost
warnBelow(key, price, cost) ==
    IF isFinite(cost) /\ isFinite(price) /\ LtN(price, cost)
    THEN Msg(key, "below") ELSE <<>>

\* Number(params.key)
raw(p, key) == p[key]

validateP1(p) ==
    [ERR |-> chkInt("T", raw(p, "T"), T_MAX) \o chkRate("i", raw(p, "i"))
               \o chkNonNeg("k0", raw(p, "k0")),
     WARN |-> <<>>]

validateP2(p) ==
    [ERR |-> chkInt("T", raw(p, "T"), T_MAX) \o chkK0("k0", raw(p, "k0")),
     WARN |-> <<>>]

validateP3(p) ==
    [ERR |-> chkInt("N", raw(p, "N"), NMax) \o chkSeed(p.seed),
     WARN |-> <<>>]

validateP4(p) ==
    [ERR |-> chkInt("H", raw(p, "H"), H_MAX)
               \o chkNonNeg("costo_fijo", raw(p, "costo_fijo"))
               \o chkNonNeg("costo", raw(p, "costo"))
               \o chkNonNeg("precio", raw(p, "precio"))
               \o chkSeed(p.seed),
     WARN |-> warnBelow("precio", raw(p, "precio"), raw(p, "costo"))]

validateP6(p) ==
    LET g == expectedGuard(raw(p, "NMD"), raw(p, "media_demanda"))
    IN  [ERR |-> chkInt("NMD", raw(p, "NMD"), NMD_MAX)
                   \o chkPosMax("CBO", raw(p, "CBO"), CBO_MAX)
                   \o chkNonNegMax("PUV", raw(p, "PUV"), PRICE_MAX)
                   \o chkNonNegMax("CADQ", raw(p, "CADQ"), PRICE_MAX)
                   \o chkNonNegMax("CINV", raw(p, "CINV"), PRICE_MAX)
                   \o chkNonNegMax("CORDET_UNIT", raw(p, "CORDET_UNIT"), PRICE_MAX)
                   \o chkPosMax("media_demanda", raw(p, "media_demanda"), DEM_MAX)
                   \o chkSeed(p.seed)
                   \o g.ERR,
         WARN |-> g.WARN
                   \o warnBelow("PUV", raw(p, "PUV"), raw(p, "CADQ"))
                   \o warnBelow("CINV", raw(p, "PUV"), raw(p, "CINV"))]

\* the farmer model validates nothing
validate(s, p) ==
    CASE s = "p1" -> validateP1(p)
      [] s = "p2" -> validateP2(p)
      [] s = "p3" -> validateP3(p)
      [] s = "p4" -> validateP4(p)
      [] s = "p5" -> [ERR |-> <<>>, WARN |-> <<>>]
      [] s = "p6" -> validateP6(p)
----------------------------------------------------------------------------
(* The submissions explored: per field a few texts, the first being the one *)
(* of the example form; a submission departs from the example in at most   *)
(* MaxDev fields                                                            *)

Sims == {"p1", "p2", "p3", "p4", "p5", "p6"}

\* seeds as character codes: "a", "", " a " and a seed of 121 characters
SeedA == <<97>>
SeedPadded == <<32, 97, 32>>
SeedLong == [j \in 1..(SEED_MAX_LEN + 1) |-> 97]
SeedTokens == <<SeedA, <<>>, SeedPadded, SeedLong>>

\* (Math.random() * 1e9) >>> 0: the least, the greatest and one more draw
Entropy == {<<0, 0>>, <<0, 1>>, <<15258, 51711>>}

RECURSIVE seqOf(_, _)
seqOf(f, n) == IF n = 0 THEN <<>> ELSE Append(seqOf(f, n - 1), f[n])

\* horizon texts: the whole numbers 1..MaxH (MaxH first), then "", "abc",
\* "2.5", "-1" and "1e13"
Whole == [n \in 1..MaxH |-> Lit(1000 * (MaxH + 1 - n))]
HorizonTokens == seqOf(Whole, MaxH) \o <<Empty, Text, Lit(2500), Lit(-1000), Huge>>
\* the farmer model runs any positive horizon: "1e13" is left out
HorizonTokensP5 == seqOf(Whole, MaxH) \o <<Empty, Text, Lit(2500), Lit(-1000)>>
\* the inventory model: 10 days, six weeks, one day, then "", "2.5" and "1e13"
HorizonTokensP6 == <<Lit(10000), Lit(42000), Lit(1000), Empty, Lit(2500), Huge>>

Tokens(s, key) ==
    CASE key = "seed" -> SeedTokens
      [] s = "p1" /\ key = "T" -> HorizonTokens
      [] s = "p1" /\ key = "i" -> <<Lit(100), Lit(35), Lit(0), Lit(1500), Lit(-100), Text>>
      [] s = "p1" /\ key = "k0" -> <<Lit(1000000), Lit(10000000), Lit(-1000), Text>>
      [] s = "p2" /\ key = "T" -> HorizonTokens
      [] s = "p2" /\ key = "k0" ->
            <<Lit(10000000), Lit(20000000), Lit(100000000), Lit(1000000000),
              Lit(-1000), Huge>>
      [] s = "p3" /\ key = "N" -> HorizonTokens
      [] s = "p4" /\ key = "H" -> HorizonTokens
      [] s = "p4" /\ key = "costo_fijo" -> <<Lit(300000), Lit(-1000)>>
      [] s = "p4" /\ key = "costo" -> <<Lit(50000), Lit(-500), Empty>>
      [] s = "p4" /\ key = "precio" -> <<Lit(75000), Lit(40000), Lit(-1000)>>
      [] s = "p5" /\ key = "dias" -> HorizonTokensP5
      [] s = "p5" /\ key = "lambda" -> <<Lit(1000), Lit(0), Lit(500), Lit(-1000)>>
      [] s = "p5" /\ key = "precio_huevo" -> <<Lit(1500), Text>>
      [] s = "p5" /\ key = "precio_pollo" -> <<Lit(5000), Empty>>
      [] s = "p6" /\ key = "NMD" -> HorizonTokensP6
      [] s = "p6" /\ key = "CBO" -> <<Lit(7100), Lit(34), Lit(0), Text, Huge>>
      [] s = "p6" /\ key = "PUV" -> <<Lit(5000), Lit(3000), Lit(-1000)>>
      [] s = "p6" /\ key = "CADQ" -> <<Lit(3500), Huge>>
      [] s = "p6" /\ key = "CINV" -> <<Lit(100), Lit(-100)>>
      [] s = "p6" /\ key = "CORDET_UNIT" -> <<Lit(100000), Lit(1639000), Lit(-1000)>>
      [] s = "p6" /\ key = "media_demanda" ->
            <<Lit(1000), Lit(0), Lit(1000000000), Huge>>

Example(s) == [key \in Keys(s) |-> Tokens(s, key)[1]]

TokenSet(s, key) == {Tokens(s, key)[j] : j \in 1..Len(Tokens(s, key))}

AltSet(s, key) == TokenSet(s, key) \ {Example(s)[key]}

\* the submissions of model s, field by field: F holds the forms built from the
\* first j - 1 fields, each with the number d of fields it changed
RECURSIVE Extend(_, _, _)
Extend(s, j, F) ==
    IF j > Len(inputs(s)) THEN {r.f : r \in F}
    ELSE LET key == inputs(s)[j].key
         IN  Extend(s, j + 1,
                 F \cup {[f |-> [r.f EXCEPT ![key] = t], d |-> r.d + 1] :
                            r \in {q \in F : q.d < MaxDev}, t \in AltSet(s, key)})

Forms(s) == Extend(s, 1, {[f |-> Example(s), d |-> 0]})

Submissions == UNION {{[sim |-> s, form |-> f] : f \in Forms(s)} : s \in Sims}
----------------------------------------------------------------------------
(* The six models: normalised parameters, accumulators and one step each *)

\* v thousandths to hundredths as toFixed(2) prints them: half away from zero
toFixed2(v) == IF v >= 0 THEN (v + 5) \div 10 ELSE -((5 - v) \div 10)

\* floor(k * r / 1000) for k >= 0 and 0 <= r <= 1000, without forming k * r
mulRate(k, r) == (k \div 1000) * r + ((k % 1000) * r) \div 1000

\* seedStr of a run
seedStrOf(p) == trim(p.seed)

\* the mutant of makeRng: the entropy source is used whatever the seed
makeRng_Entropy(seedStr, ent) == makeLCG(ent)

\* seedStr ? makeLCG(strToSeed(seedStr)) : makeLCG((Math.random() * 1e9) >>> 0)
makeRng(seedStr, ent) ==
    IF seedStr # <<>> THEN makeLCG(strToSeed(seedStr)) ELSE makeLCG(ent)

---------------------------------------------------------------------------
\* P1: fixed-rate deposit

initP1(p) == [c |-> 0, k |-> raw(p, "k0").v]

\* the mutant of yearP1: the interest is paid out, the capital stays
yearP1_Simple(s, g, I) ==
    [st |-> [c |-> s.c + 1, k |-> s.k], x |-> g,
     row |-> [idx |-> s.c + 1, interes |-> toFixed2(I), capital |-> toFixed2(s.k)]]

yearP1(s, g, I) ==
    [st |-> [c |-> s.c + 1, k |-> s.k + I], x |-> g,
     row |-> [idx |-> s.c + 1, interes |-> toFixed2(I), capital |-> toFixed2(s.k + I)]]

\* one year of the loop: I = k * i; k += I; the row
stepP1(p, s, g) == yearP1(s, g, mulRate(s.k, raw(p, "i").v))

doneP1(p, s) == [T |-> floor(raw(p, "T")), capitalFinal |-> toFixed2(s.k)]

---------------------------------------------------------------------------
\* P2: deposit whose rate depends on the capital

\* the mutant of tasaSegunK: one flat rate
tasaSegunK_Flat(k) == 35

\* the annual rate, in thousandths, for a capital of k thousandths
tasaSegunK(k) ==
    IF k >= 0 /\ k <= 10000 * 1000 THEN 35
    ELSE IF k > 10000 * 1000 /\ k <= 100000 * 1000 THEN 37
    ELSE IF k > 1000000 * 1000 THEN 40
    ELSE 37

initP2(p) == [c |-> 0, k |-> raw(p, "k0").v]

yearP2(s, g, i, I) ==
    [st |-> [c |-> s.c + 1, k |-> s.k + I], x |-> g,
     row |-> [idx |-> s.c + 1, tasa |-> i, interes |-> toFixed2(I),
              capital |-> toFixed2(s.k + I)]]

rateP2(s, g, i) == yearP2(s, g, i, mulRate(s.k, i))

\* one year of the loop: the rate for k, I = k * i; k += I; the row
stepP2(p, s, g) == rateP2(s, g, tasaSegunK(s.k))

doneP2(p, s) == [T |-> floor(raw(p, "T")), capitalFinal |-> toFixed2(s.k)]

---------------------------------------------------------------------------
\* P3: dice game

initP3(p) == [juegos |-> 0, ganaCasa |-> 0, pierdeCasa |-> 0, gananciaAcum |-> 0]

\* the mutant of rowP3: a lost game costs the house the whole 5 Bs it pays
rowP3_Pay5(s, r1, r2) ==
    [st |-> [juegos |-> s.juegos + 1,
             ganaCasa |-> s.ganaCasa + (IF r1.r + r2.r = 7 THEN 0 ELSE 1),
             pierdeCasa |-> s.pierdeCasa + (IF r1.r + r2.r = 7 THEN 1 ELSE 0),
             gananciaAcum |-> s.gananciaAcum + (IF r1.r + r2.r = 7 THEN -5 ELSE 2)],
     x |-> r2.x,
     row |-> [idx |-> s.juegos + 1, d1 |-> r1.r, d2 |-> r2.r, suma |-> r1.r + r2.r,
              resultado |-> IF r1.r + r2.r = 7 THEN "Casa pierde" ELSE "Casa gana",
              gananciaAcum |-> s.gananciaAcum + (IF r1.r + r2.r = 7 THEN -5 ELSE 2)]]

\* the game's books and its row: r1, r2 the two dice drawn
rowP3(s, r1, r2) ==
    [st |-> [juegos |-> s.juegos + 1,
             ganaCasa |-> s.ganaCasa + (IF r1.r + r2.r = 7 THEN 0 ELSE 1),
             pierdeCasa |-> s.pierdeCasa + (IF r1.r + r2.r = 7 THEN 1 ELSE 0),
             gananciaAcum |-> s.gananciaAcum + (IF r1.r + r2.r = 7 THEN -3 ELSE 2)],
     x |-> r2.x,
     row |-> [idx |-> s.juegos + 1, d1 |-> r1.r, d2 |-> r2.r, suma |-> r1.r + r2.r,
              resultado |-> IF r1.r + r2.r = 7 THEN "Casa pierde" ELSE "Casa gana",
              gananciaAcum |-> s.gananciaAcum + (IF r1.r + r2.r = 7 THEN -3 ELSE 2)]]

secondDie(s, r1) == rowP3(s, r1, randint1to6(r1.x))

\* one game of the loop: two dice, the payout, the row
stepP3(p, s, g) == secondDie(s, randint1to6(g))

doneP3(p, s) ==
    [totalJuegos |-> floor(raw(p, "N")), ganadosCasa |-> s.ganaCasa,
     perdidosCasa |-> s.pierdeCasa,
     porcentajeGanadosCasa |->
         LET N == floor(raw(p, "N"))
         IN  IF N > 0 THEN (20000 * s.ganaCasa + N) \div (2 * N) ELSE 0,
     gananciaNetaTotalBs |-> s.gananciaAcum]

---------------------------------------------------------------------------
\* P4: shop

\* u < 0.2, u < 0.5, u < 0.8 and u < 0.9 for u = x / 2^32, as bounds on x
U20 == <<13107, 13108>>
U50 == <<32768, 0>>
U80 == <<52428, 52429>>
U90 == <<58982, 26215>>

\* the mutant of sampleArticulos: the last bracket yields 4
sampleArticulos_Four(u) ==
    IF LtNum(u, U20) THEN 0 ELSE IF LtNum(u, U50) THEN 1
    ELSE IF LtNum(u, U90) THEN 2 ELSE 4

sampleArticulos(u) ==
    IF LtNum(u, U20) THEN 0 ELSE IF LtNum(u, U50) THEN 1
    ELSE IF LtNum(u, U90) THEN 2 ELSE 3

\* the inner loop over the hour's clients: items sold and the generator after it
RECURSIVE clientesLoop(_, _, _)
cliente(c, d, art) == clientesLoop(c - 1, d.x, art + sampleArticulos(d.num))
clientesLoop(c, g, art) == IF c = 0 THEN [x |-> g, art |-> art] ELSE cliente(c, next(g), art)

initP4(p) == [h |-> 0, totClientes |-> 0, totArt |-> 0, ingreso |-> 0, costoVar |-> 0]

\* the hour's books and its row: the clients drawn, lp their purchases
rowP4(p, s, clientes, lp) ==
    [st |-> [h |-> s.h + 1, totClientes |-> s.totClientes + clientes,
             totArt |-> s.totArt + lp.art,
             ingreso |-> s.ingreso + lp.art * raw(p, "precio").v,
             costoVar |-> s.costoVar + lp.art * raw(p, "costo").v],
     x |-> lp.x,
     row |-> [idx |-> s.h + 1, clientes |-> clientes, articulos |-> lp.art,
              ingreso |-> toFixed2(lp.art * raw(p, "precio").v),
              costoVar |-> toFixed2(lp.art * raw(p, "costo").v),
              ganancia |-> toFixed2(lp.art * raw(p, "precio").v
                                    - lp.art * raw(p, "costo").v)]]

hourP4(p, s, rc) == rowP4(p, s, rc.r, clientesLoop(rc.r, rc.x, 0))

\* one hour of the loop: the arrivals, each client's purchase, the row
stepP4(p, s, g) == hourP4(p, s, randint(g, 0, 4))

doneP4(p, s) ==
    [horas |-> floor(raw(p, "H")), clientesAtendidos |-> s.totClientes,
     articulosVendidos |-> s.totArt, ingresoTotalBs |-> toFixed2(s.ingreso),
     costoVariableBs |-> toFixed2(s.costoVar),
     costoFijoBs |-> toFixed2(raw(p, "costo_fijo").v),
     gananciaNetaBs |-> toFixed2(s.ingreso - s.costoVar - raw(p, "costo_fijo").v)]
----------------------------------------------------------------------------
\* P5: farmer (no validation: each parameter falls back to a default)

DIAS_DEFAULT == 30
LAMBDA_DEFAULT == 1000
PRECIO_HUEVO_DEFAULT == 1500
PRECIO_POLLO_DEFAULT == 5000

\* the mutant of coerceP5: an unusable horizon becomes 0 days
coerceP5_Zero(p) ==
    [dias |-> IF isFinite(raw(p, "dias")) /\ Gt(raw(p, "dias"), 0)
              THEN floor(raw(p, "dias")) ELSE 0,
     lambda |-> IF isFinite(raw(p, "lambda")) /\ ~Lt(raw(p, "lambda"), 0)
                THEN raw(p, "lambda").v ELSE LAMBDA_DEFAULT,
     precioHuevo |-> IF isFinite(raw(p, "precio_huevo"))
                     THEN raw(p, "precio_huevo").v ELSE PRECIO_HUEVO_DEFAULT,
     precioPollo |-> IF isFinite(raw(p, "precio_pollo"))
                     THEN raw(p, "precio_pollo").v ELSE PRECIO_POLLO_DEFAULT]

\* the first lines of run: dias, lambda and the two prices
coerceP5(p) ==
    [dias |-> IF isFinite(raw(p, "dias")) /\ Gt(raw(p, "dias"), 0)
              THEN floor(raw(p, "dias")) ELSE DIAS_DEFAULT,
     lambda |-> IF isFinite(raw(p, "lambda")) /\ ~Lt(raw(p, "lambda"), 0)
                THEN raw(p, "lambda").v ELSE LAMBDA_DEFAULT,
     precioHuevo |-> IF isFinite(raw(p, "precio_huevo"))
                     THEN raw(p, "precio_huevo").v ELSE PRECIO_HUEVO_DEFAULT,
     precioPollo |-> IF isFinite(raw(p, "precio_pollo"))
                     THEN raw(p, "precio_pollo").v ELSE PRECIO_POLLO_DEFAULT]

\* a probability p as the pair <<h, l>> with p = (h * 2^16 + l) / 2^32
ONE_Q32 == <<Limb, 0>>
\* floor(e^-0.1 * 2^32)
E01_Q32 == <<59299, 27854>>

\* floor(a * b / 2^32) for a <= 2^32 and b < 2^32, by 16-bit digits
MulQ32(a, b) ==
    LET A == Mul16(a[1], b[1])
        B == Mul16(a[1], b[2])
        C == Mul16(a[2], b[1])
        D == Mul16(a[2], b[2])
        d1 == D[1] + B[2] + C[2]
        d2 == B[1] + C[1] + A[2] + (d1 \div Limb)
        d3 == A[1] + (d2 \div Limb)
    IN  <<d3, d2 % Limb>>

\* Math.exp(-lambda) for lambda in thousandths, counted in tenths
RECURSIVE expNegTenths(_)
expNegTenths(n) == IF n = 0 THEN ONE_Q32 ELSE MulQ32(expNegTenths(n - 1), E01_Q32)
expNeg(lambda) == expNegTenths(lambda \div 100)

\* do { k++; p *= rnd(); } while (p > L)
RECURSIVE knuthLoop(_, _, _, _)
knuthTest(L, k, p2, g2) ==
    IF LtNum(L, p2) THEN knuthLoop(L, k + 1, p2, g2) ELSE [x |-> g2, k |-> k + 1]
knuthDraw(L, k, p, d) == knuthTest(L, k, MulQ32(p, d.num), d.x)
knuthLoop(L, k, p, g) == knuthDraw(L, k, p, next(g))

\* the mutant of poissonKnuth: returns k, not k - 1
knuthRaw(r) == [x |-> r.x, r |-> r.k]
poissonKnuth_Raw(lambda, g) == knuthRaw(knuthLoop(expNeg(lambda), 0, ONE_Q32, g))

\* return k - 1
knuthResult(r) == [x |-> r.x, r |-> r.k - 1]
poissonKnuth(lambda, g) == knuthResult(knuthLoop(expNeg(lambda), 0, ONE_Q32, g))

\* the fate of one egg: broken, a chick (alive or dead), or kept
RECURSIVE huevosLoop(_, _, _)
\* the mutant of chick: a chick that dies is not counted
chick_Lost(n, d2, acc) ==
    IF LtNum(d2.num, U80) THEN huevosLoop(n - 1, d2.x, [acc EXCEPT !.pv = @ + 1])
    ELSE huevosLoop(n - 1, d2.x, acc)

chick(n, d2, acc) ==
    IF LtNum(d2.num, U80) THEN huevosLoop(n - 1, d2.x, [acc EXCEPT !.pv = @ + 1])
    ELSE huevosLoop(n - 1, d2.x, [acc EXCEPT !.pm = @ + 1])
egg(n, d, acc) ==
    IF LtNum(d.num, U20) THEN huevosLoop(n - 1, d.x, [acc EXCEPT !.hr = @ + 1])
    ELSE IF LtNum(d.num, U50) THEN chick(n, next(d.x), acc)
    ELSE huevosLoop(n - 1, d.x, [acc EXCEPT !.hp = @ + 1])

\* the loop over the day's eggs
huevosLoop(n, g, acc) == IF n = 0 THEN [x |-> g, acc |-> acc] ELSE egg(n, next(g), acc)

initP5(p) ==
    [d |-> 0, huevos_perm |-> 0, huevos_rotos |-> 0, pollos_vivos |-> 0,
     pollos_muertos |-> 0, total_huevos |-> 0]

\* the day's books and its row: n eggs laid, lp their fates
rowP5(P, s, n, lp) ==
    [st |-> [d |-> s.d + 1, huevos_perm |-> s.huevos_perm + lp.acc.hp,
             huevos_rotos |-> s.huevos_rotos + lp.acc.hr,
             pollos_vivos |-> s.pollos_vivos + lp.acc.pv,
             pollos_muertos |-> s.pollos_muertos + lp.acc.pm,
             total_huevos |-> s.total_huevos + n],
     x |-> lp.x,
     row |-> [idx |-> s.d + 1, hoy |-> n, perm |-> lp.acc.hp, rotos |-> lp.acc.hr,
              vivos |-> lp.acc.pv, mueren |-> lp.acc.pm,
              ingreso |-> toFixed2(lp.acc.hp * P.precioHuevo + lp.acc.pv * P.precioPollo),
              neto |-> toFixed2(lp.acc.hp * P.precioHuevo + lp.acc.pv * P.precioPollo
                                - (lp.acc.hr * P.precioHuevo + lp.acc.pm * P.precioPollo))]]

eggsP5(P, s, hk) ==
    rowP5(P, s, hk.r, huevosLoop(hk.r, hk.x, [hp |-> 0, hr |-> 0, pv |-> 0, pm |-> 0]))
dayP5(P, s, g) == eggsP5(P, s, poissonKnuth(P.lambda, g))

\* one day of the loop: the eggs laid, the fate of each, the row
stepP5(p, s, g) == dayP5(coerceP5(p), s, g)

summaryP5(P, s) ==
    [dias |-> P.dias, lambda |-> P.lambda, totalHuevos |-> s.total_huevos,
     huevosPermanecen |-> s.huevos_perm, huevosRotos |-> s.huevos_rotos,
     pollosVivos |-> s.pollos_vivos, pollosMuertos |-> s.pollos_muertos,
     ingresoTotalBs |->
         toFixed2(s.huevos_perm * P.precioHuevo + s.pollos_vivos * P.precioPollo),
     ingresoNetoBs |->
         toFixed2(s.huevos_perm * P.precioHuevo + s.pollos_vivos * P.precioPollo
                  - (s.huevos_rotos * P.precioHuevo + s.pollos_muertos * P.precioPollo))]

doneP5(p, s) == summaryP5(coerceP5(p), s)
----------------------------------------------------------------------------
(* The inventory model's numbers: binary floating point rounded to nearest, *)
(* ties to even, as a double is, with MantBits bits of mantissa for the 53  *)
(* of a double.  A number is m * 2^e with |m| in 2^(MantBits-1)..2^MantBits *)
(* - 1, or zero.                                                            *)

Min(a, b) == IF a <= b THEN a ELSE b
Max(a, b) == IF a >= b THEN a ELSE b
abs(n) == IF n < 0 THEN -n ELSE n
sgn(n) == IF n < 0 THEN -1 ELSE 1

\* the position of the leading bit of m >= 1
RECURSIVE log2floor(_)
log2floor(m) ==
    IF m < 2 THEN 0
    ELSE IF m >= 256 THEN 8 + log2floor(m \div 256)
    ELSE IF m >= 16 THEN 4 + log2floor(m \div 16)
    ELSE 1 + log2floor(m \div 2)
pow2(e) == 2 ^ e
bitlen(n) == IF n = 0 THEN 0 ELSE 1 + log2floor(n)

Zero == [m |-> 0, e |-> 0]

\* q + r / (2 * half) to the nearest whole number, a tie to the even one
roundEven(q, r, half) == IF r > half \/ (r = half /\ q % 2 = 1) THEN q + 1 ELSE q

\* a mantissa that rounding carried to 2^MantBits takes the next exponent
carryOut(s, q, e) ==
    IF q = pow2(MantBits) THEN [m |-> s * pow2(MantBits - 1), e |-> e + 1]
    ELSE [m |-> s * q, e |-> e]

normK(s, a, e, k) ==
    IF k <= 0 THEN [m |-> s * a * pow2(-k), e |-> e + k]
    ELSE carryOut(s, roundEven(a \div pow2(k), a % pow2(k), pow2(k - 1)), e + k)

\* the number nearest to n * 2^e: the rounding of every arithmetic result
norm(n, e) ==
    IF n = 0 THEN Zero ELSE normK(sgn(n), abs(n), e, bitlen(abs(n)) - MantBits)

\* a + b; an operand below an eighth of the other's last place leaves it as is
fadd(a, b) ==
    IF a.m = 0 THEN b
    ELSE IF b.m = 0 THEN a
    ELSE IF a.e - b.e > MantBits + 2 THEN a
    ELSE IF b.e - a.e > MantBits + 2 THEN b
    ELSE IF a.e >= b.e THEN norm(a.m * pow2(a.e - b.e) + b.m, b.e)
    ELSE norm(a.m + b.m * pow2(b.e - a.e), a.e)

fneg(a) == [m |-> -a.m, e |-> a.e]
fsub(a, b) == fadd(a, fneg(b))
fmul(a, b) == norm(a.m * b.m, a.e + b.e)

\* a / b for b # 0: the quotient to 30 - MantBits further bits and a sticky bit
fdivK(a, b, s) ==
    norm(sgn(a.m) * sgn(b.m)
           * (2 * ((abs(a.m) * pow2(s)) \div abs(b.m))
              + (IF (abs(a.m) * pow2(s)) % abs(b.m) = 0 THEN 0 ELSE 1)),
         a.e - b.e - s - 1)
fdiv(a, b) == IF a.m = 0 THEN Zero ELSE fdivK(a, b, 30 - MantBits)

fless(a, b) == fsub(a, b).m < 0
fle(a, b) == ~fless(b, a)
fmin(a, b) == IF fless(b, a) THEN b ELSE a
fmax(a, b) == IF fless(a, b) THEN b ELSE a

\* the number a whole n is
fromInt(n) == norm(n, 0)

\* the number a decimal literal of v thousandths is: v / 1000 rounded once
fromMilliK(v, s) ==
    norm(2 * ((v * pow2(s)) \div 1000) + (IF (v * pow2(s)) % 1000 = 0 THEN 0 ELSE 1),
         -s - 1)
fromMilli(v) == IF v = 0 THEN Zero ELSE fromMilliK(v, 30 - bitlen(v))

\* Math.round(a): floor(a + 0.5), a whole number
round(a) ==
    IF a.e >= 0 THEN a.m * pow2(a.e)
    ELSE IF -a.e > MantBits + 1 THEN 0
    ELSE (a.m + pow2(-a.e - 1)) \div pow2(-a.e)

\* a.toFixed(2) in hundredths: the nearest, a half away from zero
centiAbs(m, e) ==
    IF e >= 0 THEN m * 100 * pow2(e)
    ELSE IF -e > MantBits + 8 THEN 0
    ELSE (m * 100 + pow2(-e - 1)) \div pow2(-e)
toFixed2f(a) == IF a.m >= 0 THEN centiAbs(a.m, a.e) ELSE -centiAbs(-a.m, a.e)
----------------------------------------------------------------------------
\* P6: sugar inventory.  Quantities (kg) and money (Bs) are floating-point
\* numbers; the days, the lead times and the ordered quantities are whole.

\* 1000 * ln(1 + j/8) for j = 0..7, and 1000 * ln 2
LN_EIGHTHS == <<0, 118, 223, 318, 405, 486, 560, 629>>
LN2_MILLI == 693

\* 1000 * -Math.log(w / 2^32) for 1 <= w <= 2^32 (w as <<h, l>>), from the
\* position of w's leading bit and its next three bits
negLnMilli(w) ==
    LET hiPart == w[1] >= 16
        m == IF hiPart THEN w[1] ELSE w[1] * Limb + w[2]
        e == log2floor(m)
        j == IF e >= 3 THEN (m \div pow2(e - 3)) - 8 ELSE m * pow2(3 - e) - 8
        bits == e + (IF hiPart THEN 16 ELSE 0)
    IN  (32 - bits) * LN2_MILLI - LN_EIGHTHS[j + 1]

\* 2^32 - x: the numerator of 1 - u (never below the 1e-12 clamp)
oneMinus(u) ==
    IF u[2] = 0 THEN <<Limb - u[1], 0>> ELSE <<Limb - 1 - u[1], Limb - u[2]>>

\* Math.log(w / 2^32) for 1 <= w <= 2^32
log(w) == fneg(fromMilli(negLnMilli(w)))

\* the mutant of demandaExp: the sign of the mean is kept
demandaExp_Signed(media, g) ==
    [x |-> next(g).x, r |-> fmul(media, log(oneMinus(next(g).num)))]

\* -media * Math.log(Math.max(1e-12, 1 - rnd()))
drawExp(media, d) == [x |-> d.x, r |-> fmul(fneg(media), log(oneMinus(d.num)))]
demandaExp(media, g) == drawExp(media, next(g))

\* the mutant of entregaDelta: the delivery is taken whole
entregaDelta_Whole(espacio, cant) == cant

\* Math.max(0, Math.min(espacio, cant))
entregaDelta(espacio, cant) == fmax(Zero, fmin(espacio, cant))

\* if (delta > 0): the delivery enters the inventory and is paid
recibe(a, delta) ==
    IF delta.m > 0
    THEN [a EXCEPT !.IAZU = fadd(@, delta), !.recibido = fadd(@, delta),
                   !.CTADQ = fadd(@, fmul(delta, a.CADQ)),
                   !.tr = Append(@, fadd(a.IAZU, delta))]
    ELSE a

\* the loop over ENTREGAS on a day with arrivals
RECURSIVE entregasLoop(_, _, _, _)
entregasLoop(E, i, CD, a) ==
    IF i > Len(E) THEN a
    ELSE IF E[i][1] = CD
    THEN entregasLoop(E, i + 1, CD,
             recibe(a, entregaDelta(fsub(a.CBO, a.IAZU), fromInt(E[i][2]))))
    ELSE entregasLoop(E, i + 1, CD, [a EXCEPT !.futuras = Append(@, E[i])])

normP6(p) ==
    [NMD |-> floor(raw(p, "NMD")), CBO |-> fromMilli(raw(p, "CBO").v),
     PUV |-> fromMilli(raw(p, "PUV").v), CADQ |-> fromMilli(raw(p, "CADQ").v),
     CINV |-> fromMilli(raw(p, "CINV").v),
     CORDET_UNIT |-> fromMilli(raw(p, "CORDET_UNIT").v),
     media_demanda |-> fromMilli(raw(p, "media_demanda").v)]

\* the mutant of initP6: the warehouse starts empty
initP6_Empty(p) ==
    [CD |-> 0, IAZU |-> Zero, IBRU |-> Zero, CTINV |-> Zero, CTADQ |-> Zero,
     CORDET |-> Zero, ENTREGAS |-> <<>>, DDEM |-> Zero, DINS |-> Zero,
     tr |-> <<Zero>>]

\* the state before day 1; tr holds the values IAZU took during the last day
initP6(p) ==
    [CD |-> 0, IAZU |-> normP6(p).CBO, IBRU |-> Zero, CTINV |-> Zero, CTADQ |-> Zero,
     CORDET |-> Zero, ENTREGAS |-> <<>>, DDEM |-> Zero, DINS |-> Zero,
     tr |-> <<normP6(p).CBO>>]

\* the day's arrivals: inventory, kg received, acquisition cost, the
\* deliveries still due, and the values IAZU took (tr)
llegadasP6(P, s) ==
    IF \E i \in 1..Len(s.ENTREGAS) : s.ENTREGAS[i][1] = s.CD + 1
    THEN entregasLoop(s.ENTREGAS, 1, s.CD + 1,
             [CBO |-> P.CBO, CADQ |-> P.CADQ, IAZU |-> s.IAZU, recibido |-> Zero,
              CTADQ |-> s.CTADQ, futuras |-> <<>>, tr |-> <<s.IAZU>>, llega |-> TRUE])
    ELSE [CBO |-> P.CBO, CADQ |-> P.CADQ, IAZU |-> s.IAZU, recibido |-> Zero,
          CTADQ |-> s.CTADQ, futuras |-> s.ENTREGAS, tr |-> <<s.IAZU>>,
          llega |-> FALSE]

\* the mutant of ventaP6: the whole demand is sold
ventaP6_Whole(IAZU, DAZU) ==
    [vendido |-> DAZU, perdido |-> Zero, IAZU |-> fsub(IAZU, DAZU)]

\* the sale: what is sold, what is lost, what stays
ventaP6(IAZU, DAZU) ==
    IF fle(DAZU, IAZU)
    THEN [vendido |-> DAZU, perdido |-> Zero, IAZU |-> fsub(IAZU, DAZU)]
    ELSE [vendido |-> IAZU, perdido |-> fsub(DAZU, IAZU), IAZU |-> Zero]

\* the mutant of ordenaP6: the review is daily
ordenaP6_Daily(CD, PAZU) == PAZU.m > 0

\* the weekly review: whether an order is placed
ordenaP6(CD, PAZU) == CD % 7 = 0 /\ PAZU.m > 0

\* the mutant of leadP6: the order may arrive on the day it is placed
leadP6_Today(ordena, g) == IF ordena THEN randint(g, 0, 2) ELSE [x |-> g, r |-> 0]

\* the mutant of leadP6: a delivery may take more than a week
leadP6_Slow(ordena, g) == IF ordena THEN randint(g, 6, 9) ELSE [x |-> g, r |-> 0]

\* the lead time drawn if an order is placed
leadP6(ordena, g) == IF ordena THEN randint(g, 1, 3) ELSE [x |-> g, r |-> 0]

\* the mutant of rowP6: the holding cost is charged on the opening inventory
rowP6_Opening(P, s, a, d, v, o, t) ==
    [st |-> [CD |-> s.CD + 1, IAZU |-> v.IAZU,
             IBRU |-> fadd(s.IBRU, fmul(v.vendido, P.PUV)),
             CTINV |-> fadd(s.CTINV, fmul(s.IAZU, P.CINV)),
             CTADQ |-> a.CTADQ,
             CORDET |-> IF o THEN fadd(s.CORDET, P.CORDET_UNIT) ELSE s.CORDET,
             ENTREGAS |-> IF o
                          THEN Append(a.futuras,
                                      <<s.CD + 1 + t.r, round(fsub(P.CBO, v.IAZU))>>)
                          ELSE a.futuras,
             DDEM |-> fadd(s.DDEM, d.r), DINS |-> fadd(s.DINS, v.perdido),
             tr |-> Append(a.tr, v.IAZU)],
     x |-> t.x,
     row |-> [idx |-> s.CD + 1, invIni |-> round(s.IAZU), demanda |-> round(d.r),
              vendido |-> round(v.vendido), perdido |-> round(v.perdido),
              recibido |-> round(a.recibido), invFin |-> round(v.IAZU),
              entrega |-> a.llega,
              orden |-> IF o THEN <<round(fsub(P.CBO, v.IAZU)), s.CD + 1 + t.r>>
                        ELSE <<>>]]

\* the day's books and its row: a the arrivals, d the demand drawn, v the sale,
\* o whether an order is placed and t its lead time
rowP6(P, s, a, d, v, o, t) ==
    [st |-> [CD |-> s.CD + 1, IAZU |-> v.IAZU,
             IBRU |-> fadd(s.IBRU, fmul(v.vendido, P.PUV)),
             CTINV |-> fadd(s.CTINV, fmul(v.IAZU, P.CINV)),
             CTADQ |-> a.CTADQ,
             CORDET |-> IF o THEN fadd(s.CORDET, P.CORDET_UNIT) ELSE s.CORDET,
             ENTREGAS |-> IF o
                          THEN Append(a.futuras,
                                      <<s.CD + 1 + t.r, round(fsub(P.CBO, v.IAZU))>>)
                          ELSE a.futuras,
             DDEM |-> fadd(s.DDEM, d.r), DINS |-> fadd(s.DINS, v.perdido),
             tr |-> Append(a.tr, v.IAZU)],
     x |-> t.x,
     row |-> [idx |-> s.CD + 1, invIni |-> round(s.IAZU), demanda |-> round(d.r),
              vendido |-> round(v.vendido), perdido |-> round(v.perdido),
              recibido |-> round(a.recibido), invFin |-> round(v.IAZU),
              entrega |-> a.llega,
              orden |-> IF o THEN <<round(fsub(P.CBO, v.IAZU)), s.CD + 1 + t.r>>
                        ELSE <<>>]]

reviewP6(P, s, a, d, v, o) == rowP6(P, s, a, d, v, o, leadP6(o, d.x))
saleP6(P, s, a, d, v) ==
    reviewP6(P, s, a, d, v, ordenaP6(s.CD + 1, fsub(P.CBO, v.IAZU)))
demandP6(P, s, a, d) == saleP6(P, s, a, d, ventaP6(a.IAZU, d.r))
dayP6(P, s, g) == demandP6(P, s, llegadasP6(P, s), demandaExp(P.media_demanda, g))

\* the mutant of llegadasP6Text: the deliveries of today stay in the queue
llegadasP6Text_Keep(P, s) ==
    LET CD == s.CD + 1
        a0 == [CBO |-> P.CBO, CADQ |-> P.CADQ, IAZU |-> s.IAZU, recibido |-> Zero,
               CTADQ |-> s.CTADQ, futuras |-> s.ENTREGAS, tr |-> <<s.IAZU>>,
               llega |-> FALSE]
        llegadas == SelectSeq(s.ENTREGAS, LAMBDA e : e[1] = CD)
    IN  IF llegadas # <<>>
        THEN [entregasLoop(llegadas, 1, CD, a0) EXCEPT
                 !.futuras = SelectSeq(s.ENTREGAS, LAMBDA e : e[1] >= CD),
                 !.llega = TRUE]
        ELSE a0

\* the day's arrivals in the variant that prints text lines: the loop runs
\* over today's arrivals only, then the entries due after today are kept
llegadasP6Text(P, s) ==
    LET CD == s.CD + 1
        a0 == [CBO |-> P.CBO, CADQ |-> P.CADQ, IAZU |-> s.IAZU, recibido |-> Zero,
               CTADQ |-> s.CTADQ, futuras |-> s.ENTREGAS, tr |-> <<s.IAZU>>,
               llega |-> FALSE]
        llegadas == SelectSeq(s.ENTREGAS, LAMBDA e : e[1] = CD)
    IN  IF llegadas # <<>>
        THEN [entregasLoop(llegadas, 1, CD, a0) EXCEPT
                 !.futuras = SelectSeq(s.ENTREGAS, LAMBDA e : e[1] > CD),
                 !.llega = TRUE]
        ELSE a0

\* one day of the text variant: its arrivals, then the same demand, sale,
\* costs and weekly review
dayP6Text(P, s, g) ==
    demandP6(P, s, llegadasP6Text(P, s), demandaExp(P.media_demanda, g))

\* one day of the loop: arrivals, demand and sale, weekly review, row
stepP6(p, s, g) == dayP6(normP6(p), s, g)

\* the totals: CTOT, GNETA and perdida_pct, then the summary
totalsP6(P, s, CTOT) ==
    [NMD |-> P.NMD, demandaTotalKg |-> round(s.DDEM),
     demandaInsatisfechaKg |-> round(s.DINS),
     porcentajePerdida |->
         IF s.DDEM.m > 0 THEN toFixed2f(fdiv(fmul(fromInt(100), s.DINS), s.DDEM))
         ELSE 0,
     ingresoBrutoBs |-> toFixed2f(s.IBRU), costoAdquisicionBs |-> toFixed2f(s.CTADQ),
     costoInventarioBs |-> toFixed2f(s.CTINV), costoOrdenesBs |-> toFixed2f(s.CORDET),
     costoTotalBs |-> toFixed2f(CTOT), gananciaNetaBs |-> toFixed2f(fsub(s.IBRU, CTOT)),
     inventarioFinalKg |-> round(s.IAZU)]

\* the mutant of doneP6: the total cost leaves the order cost out
doneP6_NoOrders(p, s) == totalsP6(normP6(p), s, fadd(s.CTADQ, s.CTINV))

doneP6(p, s) == totalsP6(normP6(p), s, fadd(fadd(s.CTADQ, s.CTINV), s.CORDET))
----------------------------------------------------------------------------
(* One run of a model: the events it emits, one per action *)

NoState == [none |-> TRUE]
NoRng == <<0, 0>>
NoParams == [none |-> NaN]

usesRng(s) == s \in {"p3", "p4", "p5", "p6"}

\* the horizon after normalisation: T, N, H, dias or NMD
horizon(s, p) ==
    CASE s = "p1" -> floor(raw(p, "T"))
      [] s = "p2" -> floor(raw(p, "T"))
      [] s = "p3" -> floor(raw(p, "N"))
      [] s = "p4" -> floor(raw(p, "H"))
      [] s = "p5" -> coerceP5(p).dias
      [] s = "p6" -> floor(raw(p, "NMD"))

initSt(s, p) ==
    CASE s = "p1" -> initP1(p)
      [] s = "p2" -> initP2(p)
      [] s = "p3" -> initP3(p)
      [] s = "p4" -> initP4(p)
      [] s = "p5" -> initP5(p)
      [] s = "p6" -> initP6(p)

\* the loop counter: steps already made
stepsDone(s, a) ==
    CASE s = "p1" -> a.c
      [] s = "p2" -> a.c
      [] s = "p3" -> a.juegos
      [] s = "p4" -> a.h
      [] s = "p5" -> a.d
      [] s = "p6" -> a.CD

step(s, p, a, g) ==
    CASE s = "p1" -> stepP1(p, a, g)
      [] s = "p2" -> stepP2(p, a, g)
      [] s = "p3" -> stepP3(p, a, g)
      [] s = "p4" -> stepP4(p, a, g)
      [] s = "p5" -> stepP5(p, a, g)
      [] s = "p6" -> stepP6(p, a, g)

summary(s, p, a) ==
    CASE s = "p1" -> doneP1(p, a)
      [] s = "p2" -> doneP2(p, a)
      [] s = "p3" -> doneP3(p, a)
      [] s = "p4" -> doneP4(p, a)
      [] s = "p5" -> doneP5(p, a)
      [] s = "p6" -> doneP6(p, a)

\* the mutant of loopCond: one step more
loopCond_Extra(done, N) == done <= N

\* while (juegos < N), for (c = 1; c <= T; c++): a further step is made
loopCond(done, N) == done < N

\* the mutant of moreErr: the first message is the only one
moreErr_FailFast(i, n) == FALSE

\* ERR.forEach: a message follows the i-th of n
moreErr(i, n) == i < n

\* the mutant of blocked: a warning stops the run too
blocked_Warn(err, warn) == Len(err) > 0 \/ Len(warn) > 0

\* if (ERR.length)
blocked(err, warn) == Len(err) > 0

\* the events
EvStderr(m) == [type |-> "stderr", name |-> "line", data |-> m]
EvClosing == EvStderr([field |-> "", why |-> "corrige"])
EvInfo(s, p) ==
    [type |-> "info", name |-> "params",
     data |-> [horizon |-> horizon(s, p),
               seed |-> IF usesRng(s) THEN seedStrOf(p) ELSE <<>>]]
EvInit(s) == [type |-> "step", name |-> "table:init", data |-> s]
\* a row carries its step number as idx (juego, hora, dia, anio in the models)
EvRow(r) == [type |-> "step", name |-> "table:row", data |-> r]
EvDone(d) == [type |-> "done", name |-> "summary", data |-> d]

\* Runner's views: the warning lines, whether the panel shows the run's
\* parameters, whether the table is set, its rows, whether a summary is shown
NoView == [warnings |-> <<>>, info |-> FALSE, table |-> FALSE, rows |-> 0,
           summary |-> FALSE]

\* append: the sink of the Runner
append(v, e) ==
    IF e.type = "stderr" THEN [v EXCEPT !.warnings = Append(@, e.data)]
    ELSE IF e.type = "info" THEN [v EXCEPT !.info = TRUE]
    ELSE IF e.type = "step" /\ e.name = "table:init"
    THEN [v EXCEPT !.table = TRUE, !.rows = 0]
    ELSE IF e.type = "step" /\ e.name = "table:row"
    THEN (IF v.table THEN [v EXCEPT !.rows = @ + 1] ELSE v)
    ELSE IF e.type = "done" THEN [v EXCEPT !.summary = TRUE]
    ELSE v

\* the mutant of onSinkFault: the fault is swallowed and the run goes on
onSinkFault_Swallow(nextpc) == nextpc

\* an exception leaving emit leaves run: the promise is rejected
onSinkFault(nextpc) == "thrown"

\* emit(e): the sink handles e, or throws while handling it; the run goes on
\* at nextpc, and a run that ends leaves the handler at its await
Emit(e, flt, nextpc) ==
    LET to == IF flt THEN onSinkFault(nextpc) ELSE nextpc
    IN  /\ events' = Append(events, e)
        /\ view' = IF flt THEN view ELSE append(view, e)
        /\ fault' = IF flt /\ fault = 0 THEN Len(events) + 1 ELSE fault
        /\ pc' = to
        /\ rpc' = IF to \in {"returned", "thrown"} THEN "awaiting" ELSE rpc



EmitErr ==
    /\ pc = "err"
    /\ \E flt \in BOOLEAN :
          Emit(EvStderr(ERR[ei]), flt, IF moreErr(ei, Len(ERR)) THEN "err" ELSE "closing")
    /\ ei' = ei + 1
    /\ UNCHANGED <<rngVars, running, shown, sim, form, params, ERR, WARN, st, pre, runs, hist>>

EmitClosing ==
    /\ pc = "closing"
    /\ \E flt \in BOOLEAN : Emit(EvClosing, flt, "returned")
    /\ UNCHANGED <<rngVars, running, shown, sim, form, params, ERR, WARN, ei, st, pre, runs,
                   hist>>

EmitWarn ==
    /\ pc = "warn"
    /\ \E flt \in BOOLEAN :
          Emit(EvStderr(WARN[ei]), flt, IF ei < Len(WARN) THEN "warn" ELSE "info")
    /\ ei' = ei + 1
    /\ UNCHANGED <<rngVars, running, shown, sim, form, params, ERR, WARN, st, pre, runs, hist>>

EmitInfo ==
    /\ pc = "info"
    /\ \E ent \in Entropy :
          x' = IF usesRng(sim) THEN makeRng(seedStrOf(params), ent) ELSE x
    /\ \E flt \in BOOLEAN : Emit(EvInfo(sim, params), flt, "init")
    /\ UNCHANGED <<last, calls, running, shown, sim, form, params, ERR, WARN, ei, st, pre,
                   runs, hist>>

EmitInit ==
    /\ pc = "init"
    /\ st' = initSt(sim, params)
    /\ \E flt \in BOOLEAN :
          Emit(EvInit(sim), flt,
               IF loopCond(0, horizon(sim, params)) THEN "loop" ELSE "done")
    /\ UNCHANGED <<rngVars, running, shown, sim, form, params, ERR, WARN, ei, pre, runs,
                   hist>>

StepRow ==
    /\ pc = "loop"
    /\ LET r == step(sim, params, st, x)
       IN  /\ st' = r.st
           /\ pre' = [st |-> st, x |-> x]
           /\ x' = r.x
           /\ \E flt \in BOOLEAN :
                 Emit(EvRow(r.row), flt,
                      IF loopCond(stepsDone(sim, r.st), horizon(sim, params))
                      THEN "loop" ELSE "done")
    /\ UNCHANGED <<last, calls, running, shown, sim, form, params, ERR, WARN, ei, runs,
                   hist>>

EmitDone ==
    /\ pc = "done"
    /\ \E flt \in BOOLEAN : Emit(EvDone(summary(sim, params, st)), flt, "returned")
    /\ UNCHANGED <<rngVars, running, shown, sim, form, params, ERR, WARN, ei, st, pre, runs,
                   hist>>
----------------------------------------------------------------------------
(* The Runner: onRun submits the form, run emits, the handler settles *)

NoCall == [kind |-> "none", prev |-> <<0, 0>>, num |-> <<0, 0>>,
           lo |-> 0, hi |-> 0, r |-> 0]

NoShown == [running |-> FALSE, stale |-> FALSE]

\* no step of the loop has been made
NoPre == [st |-> NoState, x |-> NoRng]

\* no run has been started
NoRun ==
    /\ running = FALSE /\ rpc = "idle" /\ view = NoView /\ shown = NoShown
    /\ sim = "none" /\ form = NoParams /\ params = NoParams /\ pc = "idle"
    /\ ERR = <<>> /\ WARN = <<>> /\ ei = 0 /\ events = <<>> /\ st = NoState
    /\ pre = NoPre
    /\ fault = 0 /\ runs = 0 /\ hist = {}

Init == x = NoRng /\ last = NoCall /\ calls = 0 /\ NoRun

\* what onRun and the head of run make of a submission: the params object and
\* the two message lists
prepare(sub) ==
    LET p == buildParams(sub.sim, sub.form)
        v == validate(sub.sim, p)
    IN  [sim |-> sub.sim, form |-> sub.form, params |-> p, ERR |-> v.ERR,
         WARN |-> v.WARN]

Prepared == {prepare(sub) : sub \in Submissions}

\* String(err?.message ?? err), the line the catch block adds
FaultLine == [field |-> "", why |-> "fault"]

\* onRun up to run's first emit: views reset, running set, params built,
\* the inputs validated
Start(q, maxRuns) ==
    /\ rpc = "idle"
    /\ ~shown.running
    /\ ~shown.stale
    /\ runs < maxRuns
    /\ running' = TRUE
    /\ rpc' = "run"
    /\ view' = NoView
    /\ shown' = [shown EXCEPT !.stale = TRUE]
    /\ sim' = q.sim
    /\ form' = q.form
    /\ params' = q.params
    /\ ERR' = q.ERR
    /\ WARN' = q.WARN
    /\ ei' = 1
    /\ pc' = IF blocked(q.ERR, q.WARN)
             THEN (IF Len(q.ERR) > 0 THEN "err" ELSE "closing")
             ELSE IF Len(q.WARN) > 0 THEN "warn" ELSE "info"
    /\ events' = <<>>
    /\ st' = NoState
    /\ pre' = NoPre
    /\ x' = NoRng
    /\ fault' = 0
    /\ runs' = runs + 1
    /\ UNCHANGED <<last, calls, hist>>

Submit == \E q \in Prepared : Start(q, MaxRuns)

\* the mutant of Finish: finally leaves the running flag as it is
Finish_Busy ==
    /\ rpc = "awaiting"
    /\ running' = running
    /\ rpc' = "idle"
    /\ view' = IF pc = "thrown" THEN [view EXCEPT !.warnings = Append(@, FaultLine)]
               ELSE view
    /\ shown' = [shown EXCEPT !.stale = TRUE]
    /\ pc' = "idle"
    /\ params' = NoParams
    /\ form' = NoParams
    /\ ERR' = <<>>
    /\ WARN' = <<>>
    /\ ei' = 0
    /\ events' = <<>>
    /\ st' = NoState
    /\ pre' = NoPre
    /\ x' = NoRng
    /\ UNCHANGED <<last, calls, sim, fault, runs>>

\* the rest of onRun after the await: catch adds the fault's line, finally
\* clears running; run's frame is gone
Finish ==
    /\ rpc = "awaiting"
    /\ running' = FALSE
    /\ rpc' = "idle"
    /\ view' = IF pc = "thrown" THEN [view EXCEPT !.warnings = Append(@, FaultLine)]
               ELSE view
    /\ shown' = [shown EXCEPT !.stale = TRUE]
    /\ pc' = "idle"
    /\ params' = NoParams
    /\ form' = NoParams
    /\ ERR' = <<>>
    /\ WARN' = <<>>
    /\ ei' = 0
    /\ events' = <<>>
    /\ st' = NoState
    /\ pre' = NoPre
    /\ x' = NoRng
    /\ UNCHANGED <<last, calls, sim, fault, runs>>

Settle == Finish /\ UNCHANGED hist

\* the browser renders the views: only when no handler holds the thread
Render ==
    /\ rpc # "run"
    /\ shown.stale
    /\ shown' = [running |-> running, stale |-> FALSE]
    /\ UNCHANGED <<rngVars, running, rpc, view, runVars, hist>>

Next ==
    \/ Submit
    \/ EmitErr
    \/ EmitClosing
    \/ EmitWarn
    \/ EmitInfo
    \/ EmitInit
    \/ StepRow
    \/ EmitDone
    \/ Settle
    \/ Render

Spec == Init /\ [][Next]_vars
----------------------------------------------------------------------------
(* Runs one after another, with the complete runs of a seeded model kept: *)
(* the submissions differ from the example form in the seed and the price  *)

SeedSims == {"p3", "p4", "p5", "p6"}

SeedPrepared ==
    {q \in Prepared :
        /\ q.sim \in SeedSims
        /\ \A key \in Keys(q.sim) \ {"seed", "precio"} :
              q.form[key] = Example(q.sim)[key]}

SubmitSeed == \E q \in SeedPrepared : Start(q, MaxSeedRuns)

\* what identifies a seeded run: the model, the numeric parameters and the
\* trimmed seed
runKey ==
    <<sim, [key \in Keys(sim) \ {"seed"} |-> params[key]], seedStrOf(params)>>

\* the handler settles; a run that returned with a seed is kept with its
\* number and its events
SettleSeed ==
    /\ Finish
    /\ hist' = IF pc = "returned" /\ ERR = <<>> /\ seedStrOf(params) # <<>>
               THEN hist \cup {[key |-> runKey, at |-> runs, trace |-> events]}
               ELSE hist

NextSeed ==
    \/ SubmitSeed
    \/ EmitErr
    \/ EmitClosing
    \/ EmitWarn
    \/ EmitInfo
    \/ EmitInit
    \/ StepRow
    \/ EmitDone
    \/ SettleSeed
    \/ Render

SpecSeed == Init /\ [][NextSeed]_vars
----------------------------------------------------------------------------
(* The generator on its own: any 32-bit seed, then next()/randint calls *)

\* seeds: 0 (fallback), 1, 2^32 - 1, the states whose successor is
\* 2^32 - 1, 0, 1 and 2^31, and the hash of "a"
RngSeeds ==
    { <<0, 0>>, <<0, 1>>, <<65535, 65535>>, <<9973, 46880>>, <<9686, 4069>>,
      <<9398, 26794>>, <<42454, 4069>>, <<58380, 10540>> }

RngLows == {-2, 0, 1}

InitRng ==
    /\ \E s \in RngSeeds : x = makeLCG(s)
    /\ last = NoCall
    /\ calls = 0
    /\ NoRun

RngNext ==
    /\ calls < MaxCalls
    /\ LET d == next(x)
       IN  /\ x' = d.x
           /\ last' = [kind |-> "next", prev |-> x, num |-> d.num,
                       lo |-> 0, hi |-> 0, r |-> 0]
    /\ calls' = calls + 1
    /\ UNCHANGED <<runnerVars, runVars, hist>>

RngRandint ==
    /\ calls < MaxCalls
    /\ \E lo \in RngLows : \E span \in 0..MaxSpan :
         LET d == randint(x, lo, lo + span)
         IN  /\ x' = d.x
             /\ last' = [kind |-> "randint", prev |-> x, num |-> d.x,
                         lo |-> lo, hi |-> lo + span, r |-> d.r]
    /\ calls' = calls + 1
    /\ UNCHANGED <<runnerVars, runVars, hist>>

RngDie ==
    /\ calls < MaxCalls
    /\ LET d == randint1to6(x)
       IN  /\ x' = d.x
           /\ last' = [kind |-> "die", prev |-> x, num |-> d.x,
                       lo |-> 1, hi |-> 6, r |-> d.r]
    /\ calls' = calls + 1
    /\ UNCHANGED <<runnerVars, runVars, hist>>

NextRng == RngNext \/ RngRandint \/ RngDie

SpecRng == InitRng /\ [][NextRng]_vars

----------------------------------------------------------------------------
(* The generator's claims *)

Bytes(n) == <<n[2] % 256, n[2] \div 256, n[1] % 256, n[1] \div 256>>

\* the bytes of 1664525 * v + 1013904223, least significant first, by long
\* multiplication with carries
RECURSIVE RefBytes(_, _, _, _)
RefBytes(vb, cb, i, carry) ==
    IF i > 4 THEN <<>>
    ELSE LET t == 1664525 * vb[i] + cb[i] + carry
         IN  <<t % 256>> \o RefBytes(vb, cb, i + 1, t \div 256)

\* (1664525 * v + 1013904223) mod 2^32
RefLcg(v) ==
    LET b == RefBytes(Bytes(v), <<95, 243, 110, 60>>, 1, 0)
    IN  <<b[4] * 256 + b[3], b[2] * 256 + b[1]>>

InU32(n) == n[1] \in 0..(Limb - 1) /\ n[2] \in 0..(Limb - 1)

\* C8: after every generator call the state x is an integer in [0, 2^32)
\* equal to (1664525 * x_prev + 1013904223) mod 2^32, and the value next()
\* returns is x / 2^32, which lies in [0, 1).
C8_LcgRecurrence ==
    /\ InU32(x)
    /\ last.kind # "none" =>
         /\ InU32(last.prev)
         /\ x = RefLcg(last.prev)
         /\ last.kind = "next" => (last.num = x /\ InU32(last.num))

\* a next() call whose 32-bit product wrapped around from a state above 2^31
C8_Witness ==
    /\ calls >= 2
    /\ last.kind = "next"
    /\ last.prev[1] >= 32768
    /\ x[1] >= 32768

\* C9: randint(lo, hi) returns an integer r with lo <= r <= hi, for every
\* generator state; a die is in 1..6, an arrival count in 0..4, a lead
\* time in 1..3.
C9_RandintInRange ==
    last.kind \in {"randint", "die"} =>
        /\ last.r \in Int
        /\ last.lo <= last.r
        /\ last.r <= last.hi

\* a draw from the largest generator state that returns the upper end
C9_Witness ==
    /\ last.kind = "randint"
    /\ last.lo < last.hi
    /\ last.r = last.hi
    /\ x = <<65535, 65535>>

\* the first n values next() returns from the state g, as numerators
RECURSIVE Stream(_, _)
Stream(g, n) == IF n = 0 THEN <<>> ELSE <<next(g).num>> \o Stream(next(g).x, n - 1)

\* the seeds of the generator specification and 123456789 itself
SeedsChecked == RngSeeds \cup {LCG_FALLBACK}

\* the seed 0 gives the state and the values of the seed 123456789; any other
\* seed is the initial state
FallbackOnlyForZero ==
    /\ LCG_FALLBACK = <<123456789 \div Limb, 123456789 % Limb>>
    /\ makeLCG(<<0, 0>>) = LCG_FALLBACK
    /\ makeLCG(LCG_FALLBACK) = LCG_FALLBACK
    /\ Stream(makeLCG(<<0, 0>>), MaxCalls + 1) = Stream(makeLCG(LCG_FALLBACK), MaxCalls + 1)
    /\ \A s \in SeedsChecked : s # <<0, 0>> => makeLCG(s) = s

\* C23: a generator made from the seed 0 starts from the state 123456789 and
\* gives the sequence of a generator made from the seed 123456789; every other
\* 32-bit seed is the initial state, unchanged.  (The first part does not
\* depend on the state: it is evaluated before the first call.)
C23_ZeroSeedFallback ==
    /\ calls = 0 =>
          /\ FallbackOnlyForZero
          /\ x # <<0, 0>>
          /\ x \in {makeLCG(s) : s \in RngSeeds}
          /\ x \in (RngSeeds \ {<<0, 0>>}) \cup {LCG_FALLBACK}
    /\ (calls = 1 /\ last.prev = LCG_FALLBACK) => x = RefLcg(LCG_FALLBACK)

\* the first draw of the generator made from the seed 0
C23_Witness ==
    /\ calls = 1 /\ last.kind = "next" /\ last.prev = LCG_FALLBACK
    /\ last.prev = makeLCG(<<0, 0>>) /\ last.num = Stream(LCG_FALLBACK, 1)[1]
----------------------------------------------------------------------------
(* Claims about one run: the order of its events, validation, warnings, *)
(* faults and the thread                                                *)

Validating == {"p1", "p2", "p3", "p4", "p6"}

\* the name of the horizon's field
HorizonKey ==
    CASE sim = "p1" -> "T" [] sim = "p2" -> "T" [] sim = "p3" -> "N"
      [] sim = "p4" -> "H" [] sim = "p5" -> "dias" [] sim = "p6" -> "NMD"

\* the configured horizon, read off the run's parameters: the whole number
\* submitted, and for the farmer model 30 days where none is usable
ConfiguredN ==
    LET n == params[HorizonKey]
    IN  IF sim = "p5" /\ ~(n.k = "num" /\ n.v > 0) THEN 30 ELSE n.v \div 1000

isStderr(e) == e.type = "stderr"
NonStderr == SelectSeq(events, LAMBDA e : ~isStderr(e))

\* the i-th event of a complete run of n steps that is not a stderr line
IsExpected(e, i, n) ==
    IF i = 1 THEN e.type = "info"
    ELSE IF i = 2 THEN e.type = "step" /\ e.name = "table:init"
    ELSE IF i <= n + 2 THEN e.type = "step" /\ e.name = "table:row" /\ e.data.idx = i - 2
    ELSE i = n + 3 /\ e.type = "done"

\* a run is under way or has just ended, its frame still there
InRun == pc \notin {"idle"} /\ sim \in Sims

\* C1: a run whose parameters pass validation emits, stderr lines aside, one
\* info, one table:init, the rows 1..N in order and one done, in this order;
\* done is its last event and the run has then ended.
C1_EventOrder ==
    (InRun /\ ERR = <<>>) =>
        /\ \A i \in 1..Len(NonStderr) : IsExpected(NonStderr[i], i, ConfiguredN)
        /\ \A i \in 1..Len(events) : events[i].type = "done" => i = Len(events)
        /\ (pc = "returned" => /\ Len(NonStderr) = ConfiguredN + 3
                               /\ rpc = "awaiting"
                               /\ ~ENABLED StepRow /\ ~ENABLED EmitDone)

C1_Witness ==
    /\ InRun /\ ERR = <<>> /\ pc = "returned" /\ sim = "p3"
    /\ ConfiguredN = MaxH /\ Len(NonStderr) = MaxH + 3

\* the horizon is not a whole number above 0, or a numeric field is negative
BadHorizon ==
    LET n == params[HorizonKey]
    IN  n.k # "num" \/ n.v % 1000 # 0 \/ n.v <= 0
NegativeFields ==
    {key \in Keys(sim) \ {"seed"} : params[key].k = "num" /\ params[key].v < 0}
InvalidFields == NegativeFields \cup (IF BadHorizon THEN {HorizonKey} ELSE {})

\* C2: in a validating model a run with an invalid input emits stderr events
\* only: no info, no table:init, no table:row, no done.
C2_InvalidEmitsOnlyStderr ==
    (InRun /\ sim \in Validating /\ (ERR # <<>> \/ InvalidFields # {})) =>
        /\ \A i \in 1..Len(events) : isStderr(events[i])
        /\ ~view.info /\ ~view.table /\ view.rows = 0 /\ ~view.summary
        /\ pc \in {"err", "closing", "returned", "thrown"}

C2_Witness ==
    /\ InRun /\ sim \in Validating /\ InvalidFields # {} /\ pc = "returned"
    /\ Len(events) >= 2

\* the stderr events of the run that name field f
Names(f) == {i \in 1..Len(events) : isStderr(events[i]) /\ events[i].data.field = f}

\* C3: when the run returns after a failed validation, every invalid field has
\* its stderr message, every collected message was emitted, in order, and the
\* closing line is the last event.
C3_AllProblemsReported ==
    (InRun /\ sim \in Validating /\ pc = "returned" /\ fault = 0
       /\ (ERR # <<>> \/ InvalidFields # {})) =>
        /\ Len(events) = Len(ERR) + 1
        /\ \A i \in 1..Len(ERR) : isStderr(events[i]) /\ events[i].data = ERR[i]
        /\ \A f \in InvalidFields : Names(f) # {} /\ Len(events) \notin Names(f)
        /\ isStderr(events[Len(events)])
        /\ events[Len(events)].data = [field |-> "", why |-> "corrige"]

C3_Witness ==
    /\ InRun /\ sim \in Validating /\ pc = "returned" /\ fault = 0
    /\ Cardinality(InvalidFields) >= 2 /\ Len(events) >= 3

\* every input is valid and the sale price is below the cost
PriceBelowCost ==
    /\ ERR = <<>> /\ InvalidFields = {}
    /\ \/ sim = "p4" /\ params["precio"].v < params["costo"].v
       \/ sim = "p6" /\ params["PUV"].v < params["CADQ"].v

\* C4: with valid inputs and a price below the cost, the retail and the
\* inventory model emit the stderr warning about it before any other kind of
\* event and then the whole run: info, table:init, N rows and done.
C4_WarningsDoNotBlock ==
    (InRun /\ PriceBelowCost) =>
        /\ pc \notin {"err", "closing"}
        /\ \E j \in 1..Len(WARN) : WARN[j].why = "below"
        /\ \A i \in 1..Min(Len(WARN), Len(events)) :
               isStderr(events[i]) /\ events[i].data = WARN[i]
        /\ (pc = "returned" =>
              /\ Len(events) = Len(WARN) + ConfiguredN + 3
              /\ Len(NonStderr) = ConfiguredN + 3
              /\ NonStderr[1].type = "info"
              /\ NonStderr[2].name = "table:init"
              /\ \A i \in 3..(ConfiguredN + 2) : NonStderr[i].name = "table:row"
              /\ NonStderr[ConfiguredN + 3].type = "done")

C4_Witness ==
    /\ InRun /\ PriceBelowCost /\ pc = "returned" /\ sim = "p4"
    /\ ConfiguredN >= 2 /\ isStderr(events[1]) /\ events[1].data.why = "below"

\* C5: a fault raised while an event is handled stops the run at that event:
\* nothing is emitted after it, the run is not entered again, the handler is
\* at its catch and records the fault as a warning line, with no summary.
C5_FaultStopsRun ==
    (fault # 0) =>
        /\ pc \in {"thrown", "idle"}
        /\ (pc = "thrown" =>
              /\ Len(events) = fault
              /\ rpc = "awaiting"
              /\ ~ENABLED StepRow /\ ~ENABLED EmitDone /\ ~ENABLED EmitInit
              /\ ~view.summary)
        /\ (pc = "idle" =>
              /\ events = <<>>
              /\ ~running
              /\ ~view.summary
              /\ view.warnings # <<>>
              /\ view.warnings[Len(view.warnings)] = [field |-> "", why |-> "fault"])

C5_Witness ==
    /\ fault >= 4 /\ pc = "idle" /\ view.rows >= 1
    /\ view.warnings = <<[field |-> "", why |-> "fault"]>>

\* C6, as claimed: once a row has been emitted and a further step is due, the
\* caller can act before that step: the row can be rendered.
C6_YieldsBetweenSteps ==
    (pc = "loop" /\ view.rows >= 1) => ENABLED Render

\* the numeric fields whose submitted text is empty or not a number
MissingFields ==
    {key \in Keys(sim) \ {"seed"} : form[key].k \in {"empty", "text"}}

\* the value the run works with for a numeric field, in thousandths: the
\* farmer model's own coercion, the parameter itself in the other models
UsedValue(key) ==
    IF sim = "p5"
    THEN CASE key = "dias" -> 1000 * coerceP5(params).dias
           [] key = "lambda" -> coerceP5(params).lambda
           [] key = "precio_huevo" -> coerceP5(params).precioHuevo
           [] key = "precio_pollo" -> coerceP5(params).precioPollo
    ELSE params[key].v

\* C16, as claimed: a numeric field submitted empty or non-numeric never
\* reaches the loop as some other number: a run that is not rejected works
\* with the field's declared default.
C16_MissingUsesDefault ==
    (InRun /\ ERR = <<>>) =>
        \A key \in MissingFields : UsedValue(key) = Field(sim, key).def.v
----------------------------------------------------------------------------
(* Claims about runs that share a seed *)

\* C7: two complete runs of the same model with the same parameters and the
\* same non-empty trimmed seed emitted the same events, whatever ran before
\* or between them.
C7_SameSeedSameEvents ==
    \A a \in hist : \A b \in hist : a.key = b.key => a.trace = b.trace

C7_Witness ==
    \E a \in hist : \E b \in hist : \E c \in hist :
        /\ a.at = 1 /\ c.at = 2 /\ b.at = 3
        /\ a.key = b.key /\ c.key # a.key /\ a.key[1] = "p3"
        /\ a.trace = b.trace /\ Len(a.trace) = MaxH + 3
----------------------------------------------------------------------------
(* Claims about the inventory model *)

InventoryRun == sim = "p6" /\ "tr" \in DOMAIN st

Capacity == normP6(params).CBO

\* C10, as claimed: at every point of every day (the start of the day, after
\* each delivery, after the sale) the inventory is at least 0 and at most the
\* capacity.
C10_InventoryWithinCapacity ==
    InventoryRun =>
        \A i \in 1..Len(st.tr) : fle(Zero, st.tr[i]) /\ fle(st.tr[i], Capacity)

isRow(e) == e.type = "step" /\ e.name = "table:row"

\* the rows emitted so far, day by day
DayRows == SelectSeq(events, isRow)

\* the last row emitted
LastOf(R) == R[Len(R)].data
LastRow == LastOf(DayRows)

\* a whole number of kg
isWhole(a) == fromInt(round(a)) = a

\* C11, as claimed: the opening inventory reported in the row of day 1
\* (invIni) equals the configured capacity, whatever the seed.
C11_OpeningEqualsCapacity ==
    (InventoryRun /\ Len(DayRows) >= 1) =>
        fromInt(DayRows[1].data.invIni) = Capacity

\* C11, amended: the inventory day 1 opens with is the capacity itself; the
\* row of day 1 reports it rounded to whole kg (invIni = Math.round(CBO)),
\* which is the capacity when the capacity is a whole number.
C11_OpeningIsRoundedCapacity ==
    InventoryRun =>
        LET R == DayRows
            C == Capacity
        IN  /\ st.CD = 0 => st.IAZU = C
            /\ st.CD = 1 => st.tr[1] = C
            /\ Len(R) >= 1 =>
                  /\ R[1].data.idx = 1
                  /\ R[1].data.invIni = round(C)
                  /\ isWhole(C) => fromInt(R[1].data.invIni) = C

\* day 1 of a run with the default capacity of 700 kg and the seed "a"
C11_Witness ==
    /\ InventoryRun /\ Len(DayRows) >= 1 /\ seedStrOf(params) = SeedA
    /\ Capacity = fromInt(700) /\ DayRows[1].data.invIni = 700

\* a day of the inventory run has been simulated
DayDone == InventoryRun /\ st.CD >= 1

\* the day just simulated, from the state it started in: what arrived, the
\* demand drawn, the sale
DayOf(P, a, d) == [P |-> P, a |-> a, d |-> d.r, v |-> ventaP6(a.IAZU, d.r)]
DayFrom(P) == DayOf(P, llegadasP6(P, pre.st), demandaExp(P.media_demanda, pre.x))
Day == DayFrom(normP6(params))

\* the argument of Math.log for the draw that follows the generator state g,
\* as a numerator over 2^32: above 0 (and above the 1e-12 clamp) and at most 1
LogArgInRange(g) ==
    LET w == oneMinus(next(g).num)
    IN  LtNum(<<0, 0>>, w) /\ ~LtNum(ONE_Q32, w)

\* a demand is a number from 0 to 23 times the mean (-ln 2^-32 < 23)
DemandInRange(media, d) == d.m >= 0 /\ fle(d, fmul(media, fromInt(23)))

\* means from 0.001 to 1e6 kg a day
Means == {fromMilli(1), fromMilli(1000), fromMilli(100000), fromMilli(1000000000)}

\* the sampler on its own, from the edge states of the generator
ExpSamplerNonNegative ==
    \A g \in RngSeeds : \A m \in Means :
        /\ LogArgInRange(makeLCG(g))
        /\ DemandInRange(m, demandaExp(m, makeLCG(g)).r)

\* an inventory run: the demand, the sale and the unmet demand of the day just
\* simulated are not negative, its row reports them, and neither the rows nor
\* the totals so far are negative
InventoryNonNegative ==
    /\ DayDone =>
          LET D == Day
              L == LastRow
          IN  /\ pre.st.CD = st.CD - 1
              /\ LogArgInRange(pre.x)
              /\ DemandInRange(D.P.media_demanda, D.d)
              /\ D.v.vendido.m >= 0 /\ D.v.perdido.m >= 0
              /\ L.idx = st.CD
              /\ L.demanda = round(D.d)
              /\ L.vendido = round(D.v.vendido)
              /\ L.perdido = round(D.v.perdido)
              /\ st.DDEM = fadd(pre.st.DDEM, D.d)
              /\ st.DINS = fadd(pre.st.DINS, D.v.perdido)
    /\ InventoryRun =>
          /\ st.DDEM.m >= 0 /\ st.DINS.m >= 0 /\ st.IBRU.m >= 0
          /\ LET R == DayRows
             IN  \A k \in 1..Len(R) :
                     /\ R[k].data.demanda >= 0 /\ R[k].data.vendido >= 0
                     /\ R[k].data.perdido >= 0

\* C15: for every mean m > 0 and every draw u in [0, 1) demandaExp returns a
\* finite value >= 0, the argument of its logarithm lying in (0, 1]; in the
\* inventory model the daily demand, the units sold and the unmet demand are
\* never negative.  (The sampler's own statement does not depend on the
\* state: it is evaluated before the first run.)
C15_DemandNonNegative ==
    /\ runs = 0 => ExpSamplerNonNegative
    /\ InventoryNonNegative

\* a day on which part of the demand was sold and part was not met
C15_Witness ==
    /\ InventoryRun
    /\ \E k \in 1..Len(DayRows) :
          DayRows[k].data.vendido >= 1 /\ DayRows[k].data.perdido >= 1

\* the deliveries of the queue E that are due on day d, and the others
Due(E, d) == SelectSeq(E, LAMBDA e : e[1] = d)
NotDue(E, d) == SelectSeq(E, LAMBDA e : e[1] # d)

IsPrefix(a, b) == Len(a) <= Len(b) /\ SubSeq(b, 1, Len(a)) = a

\* the claim's rule applied to the deliveries qs in turn: each adds
\* max(0, min(q, capacity - I)) to the inventory I and to the kg received, and
\* that quantity times the unit cost to the acquisition cost
RECURSIVE ReceiveAll(_, _, _)
Receive(qs, P, acc, got) ==
    ReceiveAll(Tail(qs), P,
               [I |-> fadd(acc.I, got), got |-> fadd(acc.got, got),
                cost |-> fadd(acc.cost, fmul(got, P.CADQ)),
                tr |-> IF got.m > 0 THEN Append(acc.tr, fadd(acc.I, got)) ELSE acc.tr,
                short |-> acc.short \/ fless(got, fromInt(Head(qs)[2]))])
ReceiveAll(qs, P, acc) ==
    IF qs = <<>> THEN acc
    ELSE Receive(qs, P, acc,
                 fmax(Zero, fmin(fromInt(Head(qs)[2]), fsub(P.CBO, acc.I))))

\* the deliveries of the day just simulated, received by that rule from the
\* state the day started in
Received ==
    ReceiveAll(Due(pre.st.ENTREGAS, st.CD), normP6(params),
               [I |-> pre.st.IAZU, got |-> Zero, cost |-> pre.st.CTADQ,
                tr |-> <<pre.st.IAZU>>, short |-> FALSE])

\* C17: a delivery of q arriving with the inventory at I is received for
\* max(0, min(q, capacity - I)): the inventory rises by that amount, the
\* acquisition cost by that amount times the unit cost (nothing is paid for
\* the part not received), and the delivery leaves the queue whether or not
\* it was received in full.
C17_DeliveryClamped ==
    DayDone =>
        LET R == Received
            D == Day
            L == LastRow
            waiting == NotDue(pre.st.ENTREGAS, st.CD)
        IN  /\ st.CTADQ = R.cost
            /\ L.recibido = round(R.got)
            /\ L.entrega = (Due(pre.st.ENTREGAS, st.CD) # <<>>)
            /\ st.tr = Append(R.tr, st.IAZU)
            /\ st.IAZU = ventaP6(R.I, D.d).IAZU
            /\ \A i \in 1..Len(st.ENTREGAS) : st.ENTREGAS[i][1] > st.CD
            /\ IsPrefix(waiting, st.ENTREGAS)
            /\ Len(st.ENTREGAS) <= Len(waiting) + 1

\* a day whose delivery was received only in part
C17_Witness ==
    /\ DayDone /\ Due(pre.st.ENTREGAS, st.CD) # <<>>
    /\ Received.short /\ Received.got.m > 0
    /\ st.ENTREGAS = <<>>

\* the order the row of day k reports: <<kg, arrival day>>, or <<>>
OrderOf(k) == DayRows[k].data.orden
Placed == LastRow.orden # <<>>

\* the order of the day just simulated is the last of the queue, behind the
\* deliveries that were already pending, and arrives 1 to 3 days later
OrderEnqueuedLast ==
    DayDone =>
        LET waiting == NotDue(pre.st.ENTREGAS, st.CD)
            L == LastRow
        IN  IF L.orden # <<>>
            THEN /\ st.ENTREGAS = Append(waiting, <<L.orden[2], L.orden[1]>>)
                 /\ L.orden[2] - st.CD \in 1..3
            ELSE st.ENTREGAS = waiting

\* the day's figures are those of the arrivals and the sale from the state
\* the day started in, whether or not an order is placed at its end
DayFiguresBeforeOrder ==
    DayDone =>
        LET D == Day
            R == Received
            L == LastRow
        IN  /\ L.recibido = round(R.got)
            /\ L.vendido = round(D.v.vendido)
            /\ L.perdido = round(D.v.perdido)
            /\ L.invFin = round(D.v.IAZU)
            /\ st.IAZU = D.v.IAZU
            /\ st.CTINV = fadd(pre.st.CTINV, fmul(D.v.IAZU, D.P.CINV))
            /\ st.CTADQ = R.cost

\* a day that receives a delivery is the arrival day of an order of an
\* earlier day
ReceivedWasOrderedEarlier ==
    InventoryRun =>
        LET R == DayRows
        IN  \A k \in 1..Len(R) :
                R[k].data.entrega =>
                    \E j \in 1..(k - 1) :
                        R[j].data.orden # <<>> /\ R[j].data.orden[2] = k

\* C18: an order placed on day d is enqueued after the day's sale and holding
\* cost, to arrive on day d + L with L in 1..3; it changes none of day d's
\* figures, and day d + 1 is the first on which it can add inventory.
C18_OrderAfterTheDay ==
    OrderEnqueuedLast /\ DayFiguresBeforeOrder /\ ReceivedWasOrderedEarlier

\* the order of day 7 arrived and entered the warehouse on day 8
C18_Witness ==
    /\ DayDone /\ st.CD = 8 /\ OrderOf(7) # <<>> /\ OrderOf(7)[2] = 8
    /\ LastRow.entrega /\ LastRow.recibido >= 1

\* the orders placed so far, from the rows
OrderDaysOf(R) == {k \in 1..Len(R) : R[k].data.orden # <<>>}
OrderDays == OrderDaysOf(DayRows)
Orders == Cardinality(OrderDays)
UnitCost == normP6(params).CORDET_UNIT

\* an order exactly on the review days that end below capacity, for the
\* shortfall rounded, at one fixed cost
OrderRule ==
    DayDone =>
        LET L == LastRow
            C == Capacity
            waiting == NotDue(pre.st.ENTREGAS, st.CD)
        IN  IF L.orden # <<>>
            THEN /\ st.CD % 7 = 0 /\ fless(st.IAZU, C)
                 /\ L.orden[1] = round(fsub(C, st.IAZU))
                 /\ Len(st.ENTREGAS) = Len(waiting) + 1
                 /\ st.ENTREGAS[Len(st.ENTREGAS)][2] = L.orden[1]
                 /\ st.CORDET = fadd(pre.st.CORDET, UnitCost)
            ELSE /\ ~(st.CD % 7 = 0 /\ fless(st.IAZU, C))
                 /\ st.ENTREGAS = waiting
                 /\ st.CORDET = pre.st.CORDET

\* the fixed cost added n times, one after the other
RECURSIVE AddedUp(_, _)
AddedUp(c, n) == IF n = 0 THEN Zero ELSE fadd(AddedUp(c, n - 1), c)

\* the whole number v is a number of the arithmetic, and so are the first n
\* multiples of the whole cost c
Representable(v) == round(fromInt(v)) = v
ExactMultiples(c, n) ==
    isWhole(c) /\ \A k \in 1..n : Representable(round(c) * k)

CostIsProduct == InventoryRun => st.CORDET = fmul(UnitCost, fromInt(Orders))
CostIsSum ==
    InventoryRun =>
        LET n == Orders
            c == UnitCost
        IN  /\ st.CORDET = AddedUp(c, n)
            /\ (n <= 5 \/ ExactMultiples(c, n)) => st.CORDET = fmul(c, fromInt(n))

\* C19 as stated: the order rule, and the order cost is the fixed cost times
\* the number of orders placed so far.
C19_OrderCostIsProduct == OrderRule /\ CostIsProduct

\* C19: an order on day d exactly when d is a multiple of 7 and the inventory
\* after the sale is below capacity, of one delivery for the shortfall rounded
\* to whole kg and at one fixed cost; the order cost is the fixed cost added
\* once per order, which is the product for up to five orders.
C19_OrderCostIsSum == OrderRule /\ CostIsSum

\* the sixth order of a run
C19_Witness == DayDone /\ st.CD = 42 /\ Placed /\ Orders = 6

\* C25: the queue of pending deliveries never holds more than one delivery,
\* and at the start of every day d every pending delivery arrives on day d or
\* later: orders are placed on multiples of 7 only and arrive within 3 days.
C25_AtMostOnePending ==
    InventoryRun =>
        LET E == st.ENTREGAS
            week == 7 * (st.CD \div 7)
        IN  /\ Len(E) <= 1
            /\ \A i \in 1..Len(E) :
                  /\ E[i][1] >= st.CD + 1
                  /\ week >= 7 /\ E[i][1] - week \in 1..3
            /\ st.CD >= 1 =>
                  /\ Len(pre.st.ENTREGAS) <= 1
                  /\ Len(NotDue(pre.st.ENTREGAS, st.CD)) <= 1
                  /\ \A i \in 1..Len(pre.st.ENTREGAS) : pre.st.ENTREGAS[i][1] >= st.CD
                  /\ LastRow.orden # <<>> => NotDue(pre.st.ENTREGAS, st.CD) = <<>>

\* the start of day 9 with the order of day 7 still pending
C25_Witness ==
    /\ InventoryRun /\ st.CD = 8 /\ Len(st.ENTREGAS) = 1 /\ st.ENTREGAS[1][1] >= 9
    /\ pre.st.ENTREGAS = st.ENTREGAS
----------------------------------------------------------------------------
(* Claims about the dice game, the deposits and the samplers *)

DiceRun == sim = "p3" /\ "juegos" \in DOMAIN st

\* the games among the first k rows in which the dice summed to 7
Sevens(k) == {i \in 1..k : DayRows[i].data.suma = 7}

\* the last event of the run, if it is the summary
Summary == events[Len(events)].data
HasSummary == events # <<>> /\ events[Len(events)].type = "done"

\* C12: in the dice game, after every game k the counters satisfy ganaCasa +
\* pierdeCasa = k and gananciaAcum = 2 * ganaCasa - 3 * pierdeCasa, a game being
\* lost by the house exactly when its two dice sum to 7; the summary has
\* ganadosCasa + perdidosCasa = N and gananciaNetaTotalBs = 2 * ganadosCasa -
\* 3 * perdidosCasa.
C12_DiceBooks ==
    DiceRun =>
        /\ Len(DayRows) = st.juegos
        /\ st.ganaCasa + st.pierdeCasa = st.juegos
        /\ st.gananciaAcum = 2 * st.ganaCasa - 3 * st.pierdeCasa
        /\ st.pierdeCasa = Cardinality(Sevens(st.juegos))
        /\ \A k \in 1..Len(DayRows) :
              LET r == DayRows[k].data
                  lost == Cardinality(Sevens(k))
              IN  /\ r.idx = k
                  /\ r.d1 \in 1..6 /\ r.d2 \in 1..6 /\ r.suma = r.d1 + r.d2
                  /\ r.resultado = "Casa pierde" <=> r.suma = 7
                  /\ r.resultado = "Casa gana" <=> r.suma # 7
                  /\ r.gananciaAcum = 2 * (k - lost) - 3 * lost
        /\ HasSummary =>
              /\ Summary.totalJuegos = ConfiguredN
              /\ Summary.ganadosCasa + Summary.perdidosCasa = ConfiguredN
              /\ Summary.perdidosCasa = Cardinality(Sevens(ConfiguredN))
              /\ Summary.gananciaNetaTotalBs
                   = 2 * Summary.ganadosCasa - 3 * Summary.perdidosCasa

\* a complete run of MaxH games that the house both won and lost
C12_Witness ==
    /\ DiceRun /\ HasSummary /\ ConfiguredN = MaxH
    /\ Summary.perdidosCasa >= 1 /\ Summary.ganadosCasa >= 1

DepositRun == sim \in {"p1", "p2"} /\ "k" \in DOMAIN st

\* the year's rate in thousandths, for the capital k held before the year
RateOf(k) == IF sim = "p1" THEN params["i"].v ELSE tasaSegunK(k)

\* I is k * r (r in thousandths) to the resolution of the model's money:
\* 1000 * I <= k * r < 1000 * (I + 1), without forming k * r
IsInterest(I, k, r) ==
    LET rest == 1000 * (I - (k \div 1000) * r)
    IN  rest <= (k % 1000) * r /\ (k % 1000) * r < rest + 1000

\* the spec's scenario: the fixed-rate deposit with T = 2, i = 0.10, k0 = 1000
Scenario ==
    /\ sim = "p1" /\ params["T"] = Num(2000) /\ params["i"] = Num(100)
    /\ params["k0"] = Num(1000000)

\* what holds in every state of a deposit run: the capital starts at k0, a
\* row per year, the last one showing the capital, the summary repeating it
DepositBooks ==
    DepositRun =>
        /\ st.c = 0 => st.k = params["k0"].v
        /\ Len(DayRows) = st.c
        /\ st.c >= 1 => DayRows[st.c].data.capital = toFixed2(st.k)
        /\ HasSummary =>
              /\ st.c = ConfiguredN
              /\ Summary.capitalFinal = DayRows[st.c].data.capital
        /\ (Scenario /\ st.c >= 1) =>
              DayRows[1].data.interes = 10000 /\ DayRows[1].data.capital = 110000
        /\ (Scenario /\ st.c >= 2) =>
              DayRows[2].data.interes = 11000 /\ DayRows[2].data.capital = 121000
        /\ (Scenario /\ HasSummary) => Summary.capitalFinal = 121000

\* the year just simulated: the interest is the capital held before the year
\* times the year's rate, the capital grew by it, and the year's row shows
\* both in hundredths
DepositYear ==
    (DepositRun /\ st.c >= 1) =>
        LET r == RateOf(pre.st.k)
            I == st.k - pre.st.k
        IN  /\ pre.st.c = st.c - 1
            /\ IsInterest(I, pre.st.k, r)
            /\ LastRow.idx = st.c
            /\ LastRow.interes = toFixed2(I)
            /\ LastRow.capital = toFixed2(st.k)
            /\ sim = "p2" => LastRow.tasa = r

PoultryRun == sim = "p5" /\ "total_huevos" \in DOMAIN st

\* the rate the run uses is 0
ZeroRate == coerceP5(params).lambda = 0

\* poissonKnuth with lambda = 0 from the generator state g: one iteration, one
\* draw, the result 0
OneDrawZero(g) ==
    /\ knuthLoop(expNeg(0), 0, ONE_Q32, g) = [x |-> RefLcg(g), k |-> 1]
    /\ poissonKnuth(0, g) = [x |-> RefLcg(g), r |-> 0]

\* a poultry run with rate 0: no egg on any day, none in the summary
NoEggs ==
    (PoultryRun /\ ZeroRate) =>
        /\ OneDrawZero(x)
        /\ st.total_huevos = 0
        /\ \A k \in 1..Len(DayRows) :
              /\ DayRows[k].data.hoy = 0 /\ DayRows[k].data.perm = 0
              /\ DayRows[k].data.rotos = 0 /\ DayRows[k].data.vivos = 0
              /\ DayRows[k].data.mueren = 0
        /\ HasSummary => Summary.totalHuevos = 0 /\ Summary.lambda = 0

\* the day just simulated drew once from the generator
OneDrawADay ==
    (PoultryRun /\ ZeroRate /\ st.d >= 1) =>
        OneDrawZero(pre.x) /\ x = RefLcg(pre.x)

\* C14: for lambda = 0 the Poisson sampler returns 0 from every generator
\* state, after exactly one iteration that consumes exactly one draw (also
\* from the states whose draw is the least and the greatest value); a poultry
\* run with lambda = 0 reports zero eggs on every day.  (The sampler's own
\* statement does not depend on the state: it is evaluated before the first run.)
C14_PoissonZeroRate ==
    /\ runs = 0 => \A g \in RngSeeds : OneDrawZero(makeLCG(g))
    /\ NoEggs
    /\ OneDrawADay

\* a complete run of MaxH days at rate 0 with the seed "a"
C14_Witness ==
    /\ PoultryRun /\ ZeroRate /\ HasSummary /\ Len(DayRows) = MaxH
    /\ seedStrOf(params) = SeedA /\ Summary.totalHuevos = 0

TieredRun == sim = "p2" /\ "k" \in DOMAIN st

\* the bands as the claim states them, for a capital of k thousandths; the
\* rate in thousandths
Band(k) ==
    CASE 0 <= k /\ k <= 10000000 -> 35
      [] 10000000 < k /\ k <= 100000000 -> 37
      [] k > 1000000000 -> 40
      [] OTHER -> 37

\* capitals at and next to the ends of the bands, a negative one and a large one
BandEdges ==
    {-1, 0, 1, 9999999, 10000000, 10000001, 99999999, 100000000, 100000001,
     999999999, 1000000000, 1000000001, 2000000000}

BandsAsStated ==
    /\ \A k \in BandEdges : tasaSegunK(k) = Band(k)
    /\ tasaSegunK(10000000) = 35 /\ tasaSegunK(100000000) = 37

\* the rate of the year just simulated is the band of the capital the year
\* started with, the row shows it, and the interest is that capital times it
RateOfTheYear ==
    (TieredRun /\ st.c >= 1) =>
        LET L == LastRow
            r == Band(pre.st.k)
        IN  /\ pre.st.c = st.c - 1
            /\ st.c = 1 => pre.st.k = params["k0"].v
            /\ L.idx = st.c
            /\ L.tasa = r
            /\ IsInterest(st.k - pre.st.k, pre.st.k, r)
            /\ L.interes = toFixed2(st.k - pre.st.k)

\* C21: in the tiered deposit the rate shown in year t's row and used for its
\* interest is the band of the capital held before the year (k0 for year 1):
\* 0.035 on [0, 10000], 0.037 on (10000, 100000], 0.040 above 1000000 and
\* 0.037 otherwise; 10000 and 100000 take the rate of the band they close.
\* (The bands' own statement does not depend on the state: it is evaluated
\* before the first run.)
C21_RateOfPriorCapital ==
    /\ runs = 0 => BandsAsStated
    /\ RateOfTheYear

\* year 2 of the deposit of 10000: year 1 at 0.035 on the boundary capital,
\* year 2 at 0.037 on 10350
C21_Witness ==
    /\ TieredRun /\ st.c = 2 /\ params["k0"] = Num(10000000)
    /\ DayRows[1].data.tasa = 35 /\ DayRows[2].data.tasa = 37
    /\ pre.st.k = 10350000

\* the eggs laid on the first n days, from the rows R
RECURSIVE LaidUpTo(_, _)
LaidUpTo(R, n) == IF n = 0 THEN 0 ELSE LaidUpTo(R, n - 1) + R[n].data.hoy

\* the four fates of a row or of the totals add up
Fates(r) == r.perm + r.rotos + r.vivos + r.mueren

\* C22: in the poultry model every egg laid is counted once, as broken, live
\* chick, dead chick or remaining egg: each row has perm + rotos + vivos +
\* mueren = hoy, and the summary has huevosPermanecen + huevosRotos +
\* pollosVivos + pollosMuertos = totalHuevos = the eggs laid over all days.
C22_EveryEggCounted ==
    PoultryRun =>
        LET R == DayRows
        IN  /\ Len(R) = st.d
            /\ \A k \in 1..Len(R) :
                  /\ R[k].data.perm >= 0 /\ R[k].data.rotos >= 0
                  /\ R[k].data.vivos >= 0 /\ R[k].data.mueren >= 0
                  /\ Fates(R[k].data) = R[k].data.hoy
            /\ st.total_huevos = LaidUpTo(R, Len(R))
            /\ st.huevos_perm + st.huevos_rotos + st.pollos_vivos + st.pollos_muertos
                 = st.total_huevos
            /\ HasSummary =>
                  /\ st.d = coerceP5(params).dias
                  /\ Summary.totalHuevos = LaidUpTo(R, Len(R))
                  /\ Summary.huevosPermanecen + Summary.huevosRotos
                       + Summary.pollosVivos + Summary.pollosMuertos
                       = Summary.totalHuevos

\* a summary that counts eggs of each of the four fates
C22_Witness ==
    /\ PoultryRun /\ HasSummary
    /\ Summary.huevosPermanecen >= 1 /\ Summary.huevosRotos >= 1
    /\ Summary.pollosVivos >= 1 /\ Summary.pollosMuertos >= 1

ShopRun == sim = "p4" /\ "totArt" \in DOMAIN st

\* the cumulative probabilities of 0, 1, 2 and 3 items, in tenths
CumTenths == <<2, 5, 9, 10>>

\* t / 10 > u for the draw u = (h * 2^16 + l) / 2^32: 10 * u * 2^16 is
\* q + f with q whole and 0 <= f < 1, and is below the whole t * 2^16 when q is
Exceeds(t, u) == 10 * u[1] + (10 * u[2]) \div Limb < t * Limb

\* the smallest category whose cumulative probability exceeds u
Category(u) ==
    CHOOSE c \in 0..3 :
        /\ Exceeds(CumTenths[c + 1], u)
        /\ \A b \in 0..(c - 1) : ~Exceeds(CumTenths[b + 1], u)

\* draws at the ends of [0, 1) and on both sides of 0.2, 0.5 and 0.9; x / 2^32
\* is 0.5 for x = 2^31 and never 0.2 or 0.9
EdgeDraws ==
    { <<0, 0>>, <<13107, 13107>>, <<13107, 13108>>, <<32767, 65535>>, <<32768, 0>>,
      <<32768, 1>>, <<58982, 26214>>, <<58982, 26215>>, <<65535, 65535>> }

SamplerAsStated ==
    /\ \A u \in EdgeDraws \cup RngSeeds :
          sampleArticulos(u) \in 0..3 /\ sampleArticulos(u) = Category(u)
    /\ sampleArticulos(<<32768, 0>>) = 2
    /\ sampleArticulos(<<13107, 13107>>) = 0 /\ sampleArticulos(<<13107, 13108>>) = 1
    /\ sampleArticulos(<<58982, 26214>>) = 2 /\ sampleArticulos(<<58982, 26215>>) = 3

\* the items of c clients, each the category of one draw, from the state g
RECURSIVE ItemsOf(_, _, _)
ItemsOf(c, g, seen) ==
    IF c = 0 THEN [x |-> g, cats |-> seen]
    ELSE ItemsOf(c - 1, next(g).x, Append(seen, Category(next(g).num)))

RECURSIVE SumOf(_)
SumOf(s) == IF s = <<>> THEN 0 ELSE Head(s) + SumOf(Tail(s))

\* the clients of the hour just simulated and their items, from the state the
\* hour started in
HourItems == ItemsOf(randint(pre.x, 0, 4).r, randint(pre.x, 0, 4).x, <<>>)

\* the items the row of every hour reports are those of its clients' draws
ShopItems ==
    (ShopRun /\ st.h >= 1) =>
        LET I == HourItems
            L == LastRow
        IN  /\ L.idx = st.h
            /\ L.clientes = Len(I.cats)
            /\ L.articulos = SumOf(I.cats)
            /\ x = I.x
            /\ st.totArt = pre.st.totArt + SumOf(I.cats)

\* C24: for every draw u in [0, 1) sampleArticulos returns the smallest
\* category of 0..3 whose cumulative probability (0.2, 0.5, 0.9, 1.0) exceeds
\* u; a draw equal to a breakpoint falls into the next category.  (The
\* sampler's own statement does not depend on the state: it is evaluated
\* before the first run.)
C24_SmallestCategoryAbove ==
    /\ runs = 0 => SamplerAsStated
    /\ ShopItems

\* an hour whose clients drew three different categories
C24_Witness ==
    /\ ShopRun /\ st.h >= 1
    /\ Cardinality({HourItems.cats[i] : i \in 1..Len(HourItems.cats)}) >= 3
    /\ LastRow.articulos = SumOf(HourItems.cats)
----------------------------------------------------------------------------

(* The holding cost of the inventory model *)

HoldingRate == normP6(params).CINV

\* Number(CTINV.toFixed(2)) read back as a number
SummaryHolding == fdiv(fromInt(Summary.costoInventarioBs), fromInt(100))

\* each day adds the closing inventory (after the deliveries and the sale)
\* times the daily rate to the holding cost, which starts at 0
HoldingOnClosing ==
    /\ (InventoryRun /\ st.CD = 0) => st.CTINV = Zero
    /\ DayDone =>
          /\ st.tr[Len(st.tr)] = st.IAZU
          /\ st.IAZU = ventaP6(Received.I, Day.d).IAZU
          /\ st.CTINV = fadd(pre.st.CTINV, fmul(st.IAZU, HoldingRate))

\* C20 as stated: each day's holding cost is on the inventory left after the
\* day's deliveries and sale, and the summary's holding cost is the sum of the
\* daily increments.
C20_SummaryIsTheSum ==
    /\ HoldingOnClosing
    /\ (InventoryRun /\ HasSummary) => SummaryHolding = st.CTINV

\* C20: each day's holding cost is the inventory left after the day's
\* deliveries and sale times the daily rate, never the opening or the pre-sale
\* inventory; the summary reports the sum of the daily increments rounded to
\* two decimals.
C20_SummaryIsTheSumInCents ==
    /\ HoldingOnClosing
    /\ (InventoryRun /\ HasSummary) =>
           /\ st.CD = normP6(params).NMD
           /\ Summary.costoInventarioBs = toFixed2f(st.CTINV)

\* the summary of a run in which a delivery was received, after a last day
\* whose opening inventory would give another increment than its closing one
C20_Witness ==
    /\ DayDone /\ HasSummary /\ Summary.costoInventarioBs >= 1
    /\ fmul(pre.st.IAZU, HoldingRate) # fmul(st.IAZU, HoldingRate)
    /\ \E k \in 1..Len(DayRows) : DayRows[k].data.recibido >= 1

(* The two variants of the inventory model *)

\* the day just simulated as the text variant simulates it, from the same state
\* and the same generator state
TextDay == dayP6Text(normP6(params), pre.st, pre.x)

\* C26: for the same parameters and the same draws, the variant that keeps every
\* queue entry whose day differs from today and the variant that applies today's
\* arrivals and keeps the entries due after today give the same inventory,
\* received quantity, acquisition cost and pending queue on every day, and the
\* same summary.
C26_VariantsAgree ==
    DayDone =>
        LET P == normP6(params)
            a == llegadasP6(P, pre.st)
            b == llegadasP6Text(P, pre.st)
            T == TextDay
        IN  /\ b.IAZU = a.IAZU /\ b.recibido = a.recibido /\ b.CTADQ = a.CTADQ
            /\ b.futuras = a.futuras /\ b.llega = a.llega
            /\ T.st = st /\ T.x = x
            /\ T.row.recibido = LastRow.recibido /\ T.row.invFin = LastRow.invFin
            /\ HasSummary => Summary = doneP6(params, T.st)

\* a day on which the delivery in the queue arrived and was received
C26_Witness ==
    /\ DayDone /\ \E i \in 1..Len(pre.st.ENTREGAS) : pre.st.ENTREGAS[i][1] = st.CD
    /\ llegadasP6Text(normP6(params), pre.st).recibido.m > 0
    /\ llegadasP6Text(normP6(params), pre.st).futuras = <<>>

(* The quantity of an order *)

\* C27: every order that is placed, and charged the fixed order cost, queues
\* at least one whole unit: no delivery of quantity 0 is ever enqueued.
C27_NoEmptyOrder ==
    InventoryRun =>
        /\ \A i \in 1..Len(st.ENTREGAS) : st.ENTREGAS[i][2] >= 1
        /\ (st.CD >= 1 /\ st.CORDET # pre.st.CORDET) =>
               /\ st.ENTREGAS # <<>>
               /\ st.ENTREGAS[Len(st.ENTREGAS)][2] >= 1

(* Orders that arrive after the horizon *)

\* the orders of the rows R that are due after day n, as queue entries
LateOrders(R, n) ==
    {<<R[k].data.orden[2], R[k].data.orden[1]>> :
        k \in {j \in 1..Len(R) : R[j].data.orden # <<>> /\ R[j].data.orden[2] > n}}

\* the state the last day would have ended in had its order not been placed
Unordered ==
    LET D == Day
    IN  rowP6(D.P, pre.st, D.a, [x |-> pre.x, r |-> D.d], D.v, FALSE,
              [x |-> pre.x, r |-> 0]).st

\* C28: an order whose arrival day is after the horizon NMD is never received:
\* the run ends with its delivery still pending; its fixed cost is in the
\* summary's order cost and total cost; it adds nothing to the acquisition cost
\* or to the final inventory.
C28_LateOrderNeverReceived ==
    InventoryRun =>
        LET R == DayRows
            n == normP6(params).NMD
            late == LateOrders(R, n)
        IN  /\ \A e \in late : \E i \in 1..Len(st.ENTREGAS) : st.ENTREGAS[i] = e
            /\ \A k \in 1..Len(R) :
                  R[k].data.entrega =>
                      \A e \in late : e[1] # k
            /\ (st.CD >= 1 /\ LastRow.orden # <<>> /\ LastRow.orden[2] > n) =>
                  LET U == Unordered
                  IN  /\ st.CTADQ = U.CTADQ /\ st.IAZU = U.IAZU
                      /\ st.CTINV = U.CTINV /\ st.IBRU = U.IBRU
                      /\ st.CORDET = fadd(U.CORDET, UnitCost)
            /\ HasSummary =>
                  /\ st.CD = n
                  /\ Summary.costoOrdenesBs = toFixed2f(AddedUp(UnitCost, Orders))
                  /\ Summary.costoTotalBs
                         = toFixed2f(fadd(fadd(st.CTADQ, st.CTINV), st.CORDET))
                  /\ late # {} =>
                         /\ Summary.costoAdquisicionBs = toFixed2f(Unordered.CTADQ)
                         /\ Summary.inventarioFinalKg = round(Unordered.IAZU)

\* the summary of a six-week run whose last day placed an order
C28_Witness ==
    /\ InventoryRun /\ HasSummary /\ st.CD = 42
    /\ LateOrders(DayRows, 42) # {}
    /\ st.ENTREGAS # <<>> /\ st.ENTREGAS[1][1] > 42
    /\ Summary.costoOrdenesBs >= 1

(* The books of a day *)

\* what was sold and what was not add up to the demand
SoldPlusUnmet == DayDone => LET D == Day IN fadd(D.v.vendido, D.v.perdido) = D.d

\* the sale is the smaller of the demand and the inventory after the day's
\* deliveries; the rest of the demand, as the subtraction gives it, is unmet
SaleIsTheMinimum ==
    DayDone =>
        LET D == Day
            I == D.a.IAZU
        IN  /\ D.v.vendido = fmin(D.d, I)
            /\ D.v.perdido = (IF fless(I, D.d) THEN fsub(D.d, I) ELSE Zero)
            /\ fle(Zero, D.v.perdido) /\ fle(D.v.perdido, D.d)
            /\ st.DDEM = fadd(pre.st.DDEM, D.d)
            /\ st.DINS = fadd(pre.st.DINS, D.v.perdido)

\* closing = opening + received - sold, and the next day opens with it
ClosingBalance ==
    DayDone =>
        LET D == Day
        IN  /\ st.IAZU = fsub(fadd(pre.st.IAZU, D.a.recibido), D.v.vendido)
            /\ llegadasP6(D.P, st).tr[1] = st.IAZU
            /\ (st.CD >= 2 /\ Len(DayRows) >= 2) =>
                   LastRow.invIni = DayRows[Len(DayRows) - 1].data.invFin

\* the number next above a positive number a whose mantissa is not the largest
Above(a) == [m |-> a.m + 1, e |-> a.e]

\* 100 * DINS / DDEM as the program computes it
UnmetPercent == fdiv(fmul(fromInt(100), st.DINS), st.DDEM)

\* the unmet demand never exceeds the demand; the percentage is from 0 to 100,
\* or one unit in the last place above 100 when the quotient rounds up, and
\* the summary reports it to two decimals
UnmetWithinDemand ==
    InventoryRun =>
        /\ fle(Zero, st.DINS) /\ fle(st.DINS, st.DDEM)
        /\ st.DDEM.m > 0 =>
               /\ fle(Zero, UnmetPercent)
               /\ fle(UnmetPercent, Above(fromInt(100)))
        /\ HasSummary =>
               /\ Summary.porcentajePerdida >= 0
               /\ Summary.porcentajePerdida
                      = (IF st.DDEM.m > 0 THEN toFixed2f(UnmetPercent) ELSE 0)

FlagFollowsRun ==
    /\ running <=> rpc # "idle"
    /\ (rpc = "idle" /\ ~shown.stale) => ~shown.running
    /\ rpc = "awaiting" => pc \in {"returned", "thrown"}

\* a submit starts a run only if the flag it reads is false, and then no run is
\* in progress; the new run begins with no event
StartsWhenFree ==
    runs' # runs =>
        /\ ~shown.running /\ ~running /\ rpc = "idle"
        /\ running' /\ rpc' = "run" /\ runs' = runs + 1 /\ events' = <<>>

\* events are emitted by the run in progress only
EmitsInRun == Len(events') > Len(events) => (rpc = "run" /\ running /\ runs' = runs)

\* onRun's finally clears the flag however the run ended
ClearsAfterRun == (rpc = "awaiting" /\ rpc' # rpc) => (rpc' = "idle" /\ ~running')

\* C30: at most one run is in progress at a time: a submit received while
\* running is true starts no second run and emits no events; the flag is set
\* back to false after every run, whether it ended with done, returned early
\* on a validation failure or threw, so that a later submit starts a new run.
C30_OneRunAtATime ==
    /\ []FlagFollowsRun
    /\ [][StartsWhenFree /\ EmitsInRun /\ ClearsAfterRun]_vars

\* after a run that threw, the flag is cleared and rendered, and a submit
\* would start the second run
C30_Witness ==
    /\ runs = 1 /\ fault # 0 /\ rpc = "idle" /\ ~running
    /\ ~shown.running /\ ~shown.stale
    /\ ENABLED Submit

====
